---- MODULE Spec2Model ----
(***************************************************************************)
(* Contract financial extraction pipeline (PRICING/extractor.py):          *)
(* the extraction orchestrator extract_from_file with its bounded retry    *)
(* loop, the pydantic schema of models/pricing.py, and the transactional   *)
(* write path save_to_database.                                            *)
(***************************************************************************)
EXTENDS Integers, Sequences, FiniteSets, TLC

VARIABLES
    pc,            \* per submission: position in the code
    filename,      \* per submission: the filename argument (sequence of characters)
    max_retries,   \* per submission: the retry limit (argument, then effective value)
    attempt,       \* per submission: loop variable of the retry loop (0-based)
    file_id,       \* per submission: handle returned by files.create (0: none)
    calls,         \* per submission: log of the external calls issued, in order
    responses,     \* per submission: what the completion service answered, in order
    last_failure,  \* per submission: the exception caught in the latest attempt
    extraction,    \* per submission: <<>> or <<the validated ContractExtraction>>
    error,         \* per submission: <<>> or <<the exception raised to the caller>>
    remote_files,  \* the service: handles of the uploaded files still stored
    next_file_id,  \* the service: next handle to hand out
    file_content,  \* per submission: the document bytes (an abstract byte string id)
    tx,            \* per submission: rows written by the open session, not committed
    contract_db_id, \* per submission: contract_db.id, 0 until the flush assigns it
    db_id,         \* per submission: <<>> or <<identity returned by save_to_database>>
    session,       \* per submission: what was done with the database session, in order
    store,         \* the database: committed rows of the four tables
    next_id,       \* the database: sequence of contract_extractions.id
    prompt_files,  \* the file system: the prompt files that can be read
    completions,   \* the service: the answers chat.completions.create can give
    set_order,     \* the interpreter: which element of a set is iterated first
    fn_name,       \* the helper function under call ("none": no helper call)
    fn_arg,        \* its argument
    fn_result,     \* what its calls so far returned or raised, in order
    request,       \* per request: the route and the parameters of the request
    response,      \* per request: <<>> or <<the HTTP response>>
    output_dir,    \* the file system: the files of config.default_output_dir
    temp_dirs,     \* the file system: the directories tempfile.mkdtemp made
    batch          \* the request for several files: its results, errors and response

orch_vars == <<filename, max_retries, attempt, file_id, calls, responses,
               last_failure, remote_files, next_file_id>>
db_vars == <<file_content, tx, contract_db_id, db_id, session, store, next_id>>
env_vars == <<prompt_files, completions, set_order, fn_name, fn_arg, fn_result,
              request, response, output_dir, temp_dirs, batch>>
vars == <<pc, extraction, error, orch_vars, db_vars, env_vars>>

Procs == DOMAIN pc

(***************************************************************************)
(* Bounds of the model.                                                    *)
(***************************************************************************)
\* largest explicit max_retries argument tried
MaxRetriesArg == 3

\* config.max_retries: int(os.getenv('MAX_RETRIES', '3'))
DefaultMaxRetries == 3

(***************************************************************************)
(* JSON values.  Every value is a tagged record, so that values of         *)
(* different JSON types can be compared.                                   *)
(*   S: string, N: number, B: boolean, O: object, A: array                 *)
(*   E: a Python Enum member (only inside validated models)                *)
(***************************************************************************)
S(v) == [t |-> "s", s |-> v]
N(v) == [t |-> "n", n |-> v]
B(v) == [t |-> "b", b |-> v]
O(r) == [t |-> "o", o |-> r]
A(q) == [t |-> "a", a |-> q]
E(cls, v) == [t |-> "e", e |-> cls, s |-> v]

(***************************************************************************)
(* The schema of models/pricing.py.  A field type is [k, of].              *)
(***************************************************************************)
Str == [k |-> "str", of |-> ""]
Int_ == [k |-> "int", of |-> ""]
Float == [k |-> "float", of |-> ""]
Bool == [k |-> "bool", of |-> ""]
StrOrNum == [k |-> "union", of |-> ""]
Model(name) == [k |-> "model", of |-> name]
List(name) == [k |-> "list", of |-> name]
Enum(name) == [k |-> "enum", of |-> name]

PaymentType == {"cash", "equity", "in-kind", "percentage", "asset-based", "hybrid"}

FrequencyType == {"one-time", "monthly", "quarterly", "annually",
                  "per-transaction", "upon-milestone"}

FeeType == {"service_fee", "management_fee", "commission", "transaction_fee",
            "asset_based_fee", "tiered_fee", "penalty_fee", "reimbursement"}

EnumValues(name) ==
    CASE name = "PaymentType" -> PaymentType
      [] name = "FrequencyType" -> FrequencyType
      [] name = "FeeType" -> FeeType

Schema ==
    [ MonetaryAmount |->
        [value |-> StrOrNum, currency |-> Str, is_redacted |-> Bool,
         redaction_pattern |-> Str],
      ContractParty |->
        [entity_name |-> Str, entity_type |-> Str, role |-> Str,
         address |-> Str, jurisdiction |-> Str],
      PaymentTiming |->
        [due_date |-> Str, grace_period |-> Str, late_fees |-> Str,
         payment_method |-> Str],
      ContractMetadata |->
        [document_title |-> Str, contract_type |-> Str, effective_date |-> Str,
         end_date |-> Str, parties |-> List("ContractParty"), total_pages |-> Int_,
         governing_law |-> Str, jurisdiction |-> Str],
      BaseCompensation |->
        [description |-> Str, amount |-> Model("MonetaryAmount"),
         payment_type |-> Enum("PaymentType"), frequency |-> Enum("FrequencyType"),
         calculation_method |-> Str, conditions |-> Str,
         payment_timing |-> Model("PaymentTiming")],
      RoyaltyTerm |->
        [description |-> Str, rate |-> Str, calculation_base |-> Str,
         minimum_amount |-> Str, maximum_amount |-> Str, product_scope |-> Str,
         territory |-> Str, special_terms |-> Str],
      FeeTerm |->
        [description |-> Str, fee_type |-> Enum("FeeType"),
         amount |-> Model("MonetaryAmount"), calculation_method |-> Str,
         frequency |-> Enum("FrequencyType"), applies_to |-> Str,
         minimum_amount |-> Model("MonetaryAmount"),
         maximum_amount |-> Model("MonetaryAmount")],
      EquityTerm |->
        [description |-> Str, instrument_type |-> Str, quantity |-> StrOrNum,
         share_price |-> StrOrNum, vesting_terms |-> Str,
         conversion_rights |-> Str],
      ExpenseTerm |->
        [category |-> Str, coverage |-> Str,
         amount_limit |-> Model("MonetaryAmount"), approval_required |-> Bool,
         reimbursement_terms |-> Str],
      FinancialTerms |->
        [base_compensation |-> List("BaseCompensation"),
         royalties |-> List("RoyaltyTerm"), fees |-> List("FeeTerm"),
         equity_compensation |-> List("EquityTerm"),
         expenses |-> List("ExpenseTerm")],
      PricingRule |->
        [rule_name |-> Str, rule_description |-> Str, rule_type |-> Str,
         triggers |-> Str, calculation |-> Str, applies_to |-> Str,
         effective_period |-> Str],
      PricingRules |-> [rules |-> List("PricingRule")],
      ExtractionMetadata |->
        [extraction_timestamp |-> Str, model_used |-> Str,
         overall_confidence |-> Float, redacted_fields_count |-> Int_,
         extraction_notes |-> Str, processing_warnings |-> List("str")],
      ContractExtraction |->
        [contract_metadata |-> Model("ContractMetadata"),
         financial_terms |-> Model("FinancialTerms"),
         pricing_rules |-> Model("PricingRules"),
         extraction_metadata |-> Model("ExtractionMetadata")] ]

Fields(name) == DOMAIN Schema[name]

ElemType(name) == IF name = "str" THEN Str ELSE Model(name)

\* pydantic's extra-fields policy of a model class: only ContractExtraction
\* sets Config.extra = "forbid"; every other class keeps the default "ignore".
ExtraPolicy(name) == IF name = "ContractExtraction" THEN "forbid" ELSE "ignore"

(***************************************************************************)
(* Validation: the ContractExtraction constructor on the parsed content.   *)
(* Valid(ty, j): j is accepted for field type ty.                          *)
(* Build(ty, j): the Python value built from an accepted j (fields that    *)
(* are not declared are not kept; enum strings become Enum members).       *)
(***************************************************************************)
RECURSIVE Valid(_, _)
Valid(ty, j) ==
    CASE ty.k = "str" -> j.t = "s"
      [] ty.k = "int" -> j.t = "n"
      [] ty.k = "float" -> j.t = "n"
      [] ty.k = "bool" -> j.t = "b"
      [] ty.k = "union" -> j.t \in {"s", "n"}
      [] ty.k = "enum" -> j.t = "s" /\ j.s \in EnumValues(ty.of)
      [] ty.k = "list" ->
            /\ j.t = "a"
            /\ \A i \in 1..Len(j.a) : Valid(ElemType(ty.of), j.a[i])
      [] ty.k = "model" ->
            /\ j.t = "o"
            /\ Fields(ty.of) \subseteq DOMAIN j.o
            /\ (ExtraPolicy(ty.of) = "forbid" => DOMAIN j.o \subseteq Fields(ty.of))
            /\ \A f \in Fields(ty.of) : Valid(Schema[ty.of][f], j.o[f])

RECURSIVE Build(_, _)
Build(ty, j) ==
    CASE ty.k = "enum" -> E(ty.of, j.s)
      [] ty.k = "list" -> A([i \in 1..Len(j.a) |-> Build(ElemType(ty.of), j.a[i])])
      [] ty.k = "model" ->
            O([f \in Fields(ty.of) |-> Build(Schema[ty.of][f], j.o[f])])
      [] OTHER -> j

\* BaseModel.model_dump(): a dict of the declared fields, nested models dumped
\* in turn, Enum members kept as they are.
RECURSIVE Dump(_, _)
Dump(ty, v) ==
    CASE ty.k = "list" -> A([i \in 1..Len(v.a) |-> Dump(ElemType(ty.of), v.a[i])])
      [] ty.k = "model" ->
            O([f \in Fields(ty.of) |-> Dump(Schema[ty.of][f], v.o[f])])
      [] OTHER -> v

model_dump(name, v) == Dump(Model(name), v)


(***************************************************************************)
(* Documents the completion service may answer with.                       *)
(***************************************************************************)
Money(value, cur, redacted) ==
    O([value |-> value, currency |-> S(cur), is_redacted |-> B(redacted),
       redaction_pattern |-> S("")])

Party(name) ==
    O([entity_name |-> S(name), entity_type |-> S("corporation"),
       role |-> S("client"), address |-> S(""), jurisdiction |-> S("NY")])

Fee(type, calc, cur) ==
    O([description |-> S("fee"), fee_type |-> S(type),
       amount |-> Money(N(100), cur, FALSE), calculation_method |-> S(calc),
       frequency |-> S("monthly"), applies_to |-> S("all"),
       minimum_amount |-> Money(N(0), cur, FALSE),
       maximum_amount |-> Money(S("[REDACTED]"), cur, TRUE)])

Comp(cur) ==
    O([description |-> S("retainer"), amount |-> Money(N(5000), cur, FALSE),
       payment_type |-> S("cash"), frequency |-> S("annually"),
       calculation_method |-> S("fixed"), conditions |-> S(""),
       payment_timing |->
           O([due_date |-> S("net 30"), grace_period |-> S(""),
              late_fees |-> S(""), payment_method |-> S("wire")])])

Rule(name) ==
    O([rule_name |-> S(name), rule_description |-> S(""), rule_type |-> S("discount"),
       triggers |-> S("volume"), calculation |-> S("5% off"), applies_to |-> S("fees"),
       effective_period |-> S("term")])

Metadata(title, parties) ==
    O([document_title |-> S(title), contract_type |-> S("services"),
       effective_date |-> S("2024-01-01"), end_date |-> S(""),
       parties |-> A(parties), total_pages |-> N(12), governing_law |-> S("NY"),
       jurisdiction |-> S("US")])

Financial(comps, fees) ==
    O([base_compensation |-> A(comps), royalties |-> A(<<>>), fees |-> A(fees),
       equity_compensation |-> A(<<>>), expenses |-> A(<<>>)])

ExtMeta(conf) ==
    O([extraction_timestamp |-> S("2024-06-01T00:00:00Z"), model_used |-> S("gpt-4o"),
       overall_confidence |-> N(conf), redacted_fields_count |-> N(1),
       extraction_notes |-> S(""), processing_warnings |-> A(<<S("redacted cap")>>)])

Doc(title, parties, comps, fees, rules, conf) ==
    O([contract_metadata |-> Metadata(title, parties),
       financial_terms |-> Financial(comps, fees),
       pricing_rules |-> O([rules |-> A(rules)]),
       extraction_metadata |-> ExtMeta(conf)])

\* overall_confidence is kept in hundredths: 95 stands for 0.95
DocA == Doc("MSA", <<Party("Acme, Inc."), Party("Bolt LLC")>>, <<Comp("USD")>>,
            <<Fee("commission", "2% of assets", "USD")>>, <<Rule("volume")>>, 95)

DocB == Doc("NDA", <<>>, <<>>,
            <<Fee("tiered_fee", "per tier", "EUR"), Fee("service_fee", "flat", "USD")>>,
            <<>>, 40)

\* a confidence of 1.5
DocC == Doc("SOW", <<Party("Cobalt Ltd.")>>, <<>>, <<>>,
            <<Rule("cap"), Rule("floor")>>, 150)

\* f added to / removed from the object j
WithField(j, f, v) == O([g \in DOMAIN j.o \cup {f} |-> IF g = f THEN v ELSE j.o[g]])
WithoutField(j, f) == O([g \in DOMAIN j.o \ {f} |-> j.o[g]])

DocRootExtra == WithField(DocA, "summary", S("n/a"))
DocRootMissing == WithoutField(DocA, "pricing_rules")
DocNestedExtra ==
    WithField(DocA, "contract_metadata",
              WithField(DocA.o.contract_metadata, "signatory", S("J. Doe")))
DocDeepExtra ==
    WithField(DocA, "financial_terms",
        WithField(DocA.o.financial_terms, "fees",
            A(<<WithField(Fee("commission", "2% of assets", "USD"), "amount",
                          WithField(Money(N(100), "USD", FALSE), "note", S("x")))>>)))
DocNestedMissing ==
    WithField(DocA, "extraction_metadata",
              WithoutField(DocA.o.extraction_metadata, "model_used"))
DocBadEnum ==
    WithField(DocA, "financial_terms",
        WithField(DocA.o.financial_terms, "fees",
            A(<<Fee("success_fee", "flat", "USD")>>)))

\* message.content of a completion: absent/empty, text that is not JSON, or JSON
Contents ==
    << [form |-> "empty", json |-> S("")],
       [form |-> "malformed", json |-> S("{contract_metadata: ")],
       [form |-> "json", json |-> DocA],
       [form |-> "json", json |-> DocB],
       [form |-> "json", json |-> DocRootExtra],
       [form |-> "json", json |-> DocRootMissing],
       [form |-> "json", json |-> DocNestedExtra],
       [form |-> "json", json |-> DocDeepExtra],
       [form |-> "json", json |-> DocNestedMissing],
       [form |-> "json", json |-> DocBadEnum],
       [form |-> "json", json |-> A(<<>>)],
       [form |-> "json", json |-> DocC] >>

\* what chat.completions.create does: raise (content 0), or answer Contents[content]
ServiceResponses ==
    {[content |-> 0, msg |-> m] : m \in {"rate limit exceeded", "connection reset"}}
        \cup {[content |-> i, msg |-> ""] : i \in 1..Len(Contents)}

(***************************************************************************)
(* Strings as sequences of characters (filenames).                         *)
(***************************************************************************)
UpperCase == <<"A", "B", "C", "D", "E", "F", "G", "H", "I", "J", "K", "L", "M", "N", "O", "P", "Q", "R", "S", "T", "U", "V", "W", "X", "Y", "Z">>
LowerCase == <<"a", "b", "c", "d", "e", "f", "g", "h", "i", "j", "k", "l", "m", "n", "o", "p", "q", "r", "s", "t", "u", "v", "w", "x", "y", "z">>

LowerChar(c) ==
    IF \E i \in 1..Len(UpperCase) : UpperCase[i] = c
    THEN LowerCase[CHOOSE i \in 1..Len(UpperCase) : UpperCase[i] = c]
    ELSE c

lower(str) == [i \in 1..Len(str) |-> LowerChar(str[i])]

endswith(str, suffix) ==
    /\ Len(suffix) <= Len(str)
    /\ SubSeq(str, Len(str) - Len(suffix) + 1, Len(str)) = suffix

DotPdf == <<".", "p", "d", "f">>

Filenames ==
    { <<"c", "o", "n", "t", "r", "a", "c", "t", ".", "p", "d", "f">>,
      <<"c", "o", "n", "t", "r", "a", "c", "t", ".", "P", "D", "F">>,
      <<"c", "o", "n", "t", "r", "a", "c", "t", ".", "d", "o", "c", "x">>,
      <<"a", ".", "P", "d", "f">>,
      <<"p", "d", "f">>,
      <<"a", ".", "p", "d", "f", ".", "t", "x", "t">> }

\* the extension check of extract_from_file
IsPdfNameCaseSensitive(name) == endswith(name, DotPdf)

IsPdfName(name) == endswith(lower(name), DotPdf)


(***************************************************************************)
(* Python values and string operations used by the helper functions of     *)
(* extractor.py (lines 192-258).                                           *)
(***************************************************************************)
None == [t |-> "none"]

\* {} as the default of dict.get
EmptyDict == O([k \in {} |-> k])

\* The characters of a string of the documents.
Chars(str) ==
    CASE str = "" -> <<>>
      [] str = "2024" -> <<"2", "0", "2", "4">>
      [] str = "2023" -> <<"2", "0", "2", "3">>
      [] str = "0000" -> <<"0", "0", "0", "0">>
      [] str = "01" -> <<"0", "1">>
      [] str = "1" -> <<"1">>
      [] str = "02" -> <<"0", "2">>
      [] str = "2" -> <<"2">>
      [] str = "12" -> <<"1", "2">>
      [] str = "13" -> <<"1", "3">>
      [] str = "00" -> <<"0", "0">>
      [] str = " 1" -> <<" ", "1">>
      [] str = "29" -> <<"2", "9">>
      [] str = "30" -> <<"3", "0">>
      [] str = "31" -> <<"3", "1">>
      [] str = "32" -> <<"3", "2">>
      [] str = "tier" -> <<"t", "i", "e", "r">>
      [] str = "tiered" -> <<"t", "i", "e", "r", "e", "d">>
      [] str = "%" -> <<"%">>
      [] str = "asset" -> <<"a", "s", "s", "e", "t">>
      [] str = "service_fee" -> <<"s", "e", "r", "v", "i", "c", "e", "_", "f", "e", "e">>
      [] str = "management_fee" -> <<"m", "a", "n", "a", "g", "e", "m", "e", "n", "t", "_", "f", "e", "e">>
      [] str = "commission" -> <<"c", "o", "m", "m", "i", "s", "s", "i", "o", "n">>
      [] str = "transaction_fee" -> <<"t", "r", "a", "n", "s", "a", "c", "t", "i", "o", "n", "_", "f", "e", "e">>
      [] str = "asset_based_fee" -> <<"a", "s", "s", "e", "t", "_", "b", "a", "s", "e", "d", "_", "f", "e", "e">>
      [] str = "tiered_fee" -> <<"t", "i", "e", "r", "e", "d", "_", "f", "e", "e">>
      [] str = "penalty_fee" -> <<"p", "e", "n", "a", "l", "t", "y", "_", "f", "e", "e">>
      [] str = "reimbursement" -> <<"r", "e", "i", "m", "b", "u", "r", "s", "e", "m", "e", "n", "t">>
      [] str = "2% of assets" -> <<"2", "%", " ", "o", "f", " ", "a", "s", "s", "e", "t", "s">>
      [] str = "per tier" -> <<"p", "e", "r", " ", "t", "i", "e", "r">>
      [] str = "flat" -> <<"f", "l", "a", "t">>
      [] str = "Asset-Based Commission" -> <<"A", "s", "s", "e", "t", "-", "B", "a", "s", "e", "d", " ", "C", "o", "m", "m", "i", "s", "s", "i", "o", "n">>
      [] str = "Tier 1 pricing" -> <<"T", "i", "e", "r", " ", "1", " ", "p", "r", "i", "c", "i", "n", "g">>
      [] str = "5% markup" -> <<"5", "%", " ", "m", "a", "r", "k", "u", "p">>
      [] str = "per TIER" -> <<"p", "e", "r", " ", "T", "I", "E", "R">>
      [] str = "Acme, Inc." -> <<"A", "c", "m", "e", ",", " ", "I", "n", "c", ".">>
      [] str = "Bolt LLC" -> <<"B", "o", "l", "t", " ", "L", "L", "C">>
      [] str = "Cobalt Ltd." -> <<"C", "o", "b", "a", "l", "t", " ", "L", "t", "d", ".">>
      [] str = "2024-01-01" -> <<"2", "0", "2", "4", "-", "0", "1", "-", "0", "1">>

\* sub in str
contains(str, sub) ==
    \E i \in 1..(Len(str) - Len(sub) + 1) : SubSeq(str, i, i + Len(sub) - 1) = sub

\* d.get(key, default)
dict_get(d, key, default) == IF key \in DOMAIN d.o THEN d.o[key] ELSE default

\* str instances (the members of the str-based Enum classes are str instances)
IsStr(v) == v.t \in {"s", "e"}

\* what a call returns to its caller: a value, or an exception
Returns(v) == [raised |-> FALSE, value |-> v]
Raises(exc) == [raised |-> TRUE, exc |-> exc]

(***************************************************************************)
(* analyze_financial_characteristics (lines 216-258).                      *)
(***************************************************************************)
\* The currencies a document can name.
Currencies == {"USD", "EUR"}

\* currencies = set() ... list(currencies)[0]: the first element of the
\* iteration of a set of strings depends on the hash values of its members
\* and, when two of them collide, on the order in which they were added.  An
\* order maps the sequence of the distinct members, as added, to the member
\* iterated first.
InsertionSeqs ==
    {q \in UNION {[1..k -> Currencies] : k \in 1..Cardinality(Currencies)} :
        \A i, j \in 1..Len(q) : q[i] = q[j] => i = j}

SetOrders ==
    {f \in [InsertionSeqs -> Currencies] :
        \A q \in InsertionSeqs : \E i \in 1..Len(q) : f[q] = q[i]}

FirstAdded == [q \in InsertionSeqs |-> q[1]]

\* currencies.add(currency)
set_add(added, member) ==
    IF \E i \in 1..Len(added) : added[i] = member THEN added ELSE Append(added, member)

\* the characteristics dict before the loops (lines 218-226)
NoCharacteristics ==
    [has_tiered_structures |-> FALSE, has_commissions |-> FALSE,
     has_asset_based_fees |-> FALSE, currencies |-> <<>>]

\* currency = x.get('amount', {}).get('currency'); if currency: add
\* (lines 242-244 and 248-250)
AddCurrency(acc, item) ==
    LET amount == dict_get(item, "amount", EmptyDict) IN
    IF amount.t # "o"
    THEN Raises("AttributeError")
    ELSE LET currency == dict_get(amount, "currency", None) IN
         IF currency.t = "s" /\ currency.s # ""
         THEN Returns([acc EXCEPT !.currencies = set_add(@, currency.s)])
         ELSE Returns(acc)

\* the test of line 233
IsTiered(fee_type, calculation) ==
    \/ contains(fee_type, Chars("tiered"))
    \/ contains(calculation, Chars("tier"))
    \/ contains(calculation, Chars("%"))

\* the test of line 236
IsCommission(fee_type) == contains(fee_type, Chars("commission"))

\* the test of line 239
IsAssetBasedTypeOnly(fee_type, calculation) == contains(fee_type, Chars("asset"))

IsAssetBased(fee_type, calculation) ==
    contains(fee_type, Chars("asset")) \/ contains(calculation, Chars("asset"))

\* one iteration of the loop over the fees (lines 230-244)
AnalyzeFeeLastWins(acc, fee) ==
    LET ft == dict_get(fee, "fee_type", S(""))
        cm == dict_get(fee, "calculation_method", S(""))
    IN IF ~IsStr(ft) \/ ~IsStr(cm)
       THEN Raises("AttributeError")
       ELSE LET fee_type == lower(Chars(ft.s))
                calculation == lower(Chars(cm.s))
            IN AddCurrency(
                 [acc EXCEPT
                    !.has_tiered_structures = IsTiered(fee_type, calculation),
                    !.has_commissions = IsCommission(fee_type),
                    !.has_asset_based_fees = IsAssetBased(fee_type, calculation)],
                 fee)

AnalyzeFee(acc, fee) ==
    LET ft == dict_get(fee, "fee_type", S(""))
        cm == dict_get(fee, "calculation_method", S(""))
    IN IF ~IsStr(ft) \/ ~IsStr(cm)
       THEN Raises("AttributeError")
       ELSE LET fee_type == lower(Chars(ft.s))
                calculation == lower(Chars(cm.s))
            IN AddCurrency(
                 [acc EXCEPT
                    !.has_tiered_structures = @ \/ IsTiered(fee_type, calculation),
                    !.has_commissions = @ \/ IsCommission(fee_type),
                    !.has_asset_based_fees = @ \/ IsAssetBased(fee_type, calculation)],
                 fee)

\* the loops of lines 229 and 247 from item i on; step is 1 for the fees and
\* 2 for the base compensations
RECURSIVE AnalyzeLoop(_, _, _, _)
AnalyzeLoop(step, acc, items, i) ==
    IF i > Len(items)
    THEN Returns(acc)
    ELSE LET r == IF step = 1 THEN AnalyzeFee(acc, items[i])
                  ELSE AddCurrency(acc, items[i])
         IN IF r.raised THEN r ELSE AnalyzeLoop(step, r.value, items, i + 1)

\* lines 252-258
CharacteristicsAnyCurrency(acc) ==
    [has_tiered_structures |-> acc.has_tiered_structures,
     has_commissions |-> acc.has_commissions,
     has_asset_based_fees |-> acc.has_asset_based_fees,
     multi_currency_flag |-> Len(acc.currencies) >= 1,
     primary_currency |-> IF acc.currencies = <<>>
                          THEN None
                          ELSE S(set_order[acc.currencies])]

Characteristics(acc) ==
    [has_tiered_structures |-> acc.has_tiered_structures,
     has_commissions |-> acc.has_commissions,
     has_asset_based_fees |-> acc.has_asset_based_fees,
     multi_currency_flag |-> Len(acc.currencies) > 1,
     primary_currency |-> IF acc.currencies = <<>>
                          THEN None
                          ELSE S(set_order[acc.currencies])]

analyze_financial_characteristics(financial_terms) ==
    LET fees == dict_get(financial_terms, "fees", A(<<>>))
        comps == dict_get(financial_terms, "base_compensation", A(<<>>))
    IN IF fees.t # "a"
       THEN Raises("TypeError")
       ELSE LET afterFees == AnalyzeLoop(1, NoCharacteristics, fees.a, 1) IN
            IF afterFees.raised
            THEN afterFees
            ELSE IF comps.t # "a"
            THEN Raises("TypeError")
            ELSE LET afterComps == AnalyzeLoop(2, afterFees.value, comps.a, 1) IN
                 IF afterComps.raised
                 THEN afterComps
                 ELSE Returns(Characteristics(afterComps.value))

(***************************************************************************)
(* normalize_name (lines 197-199).                                         *)
(***************************************************************************)
\* the characters str.strip() removes
Whitespace == {" "}

\* str.strip()
strip(str) ==
    LET kept == {i \in 1..Len(str) : str[i] \notin Whitespace} IN
    IF kept = {}
    THEN <<>>
    ELSE SubSeq(str, CHOOSE i \in kept : \A j \in kept : i <= j,
                     CHOOSE i \in kept : \A j \in kept : i >= j)

\* str.replace(old, new) for a one-character old
RECURSIVE replace(_, _, _)
replace(str, old, new) ==
    IF str = <<>>
    THEN <<>>
    ELSE (IF Head(str) = old THEN new ELSE <<Head(str)>>)
             \o replace(Tail(str), old, new)

normalize_name(name) ==
    replace(replace(strip(lower(name)), ",", <<>>), ".", <<>>)

(***************************************************************************)
(* safe_date_parse (lines 202-213).                                        *)
(***************************************************************************)
Digits == <<"0", "1", "2", "3", "4", "5", "6", "7", "8", "9">>

IsDigit(c) == \E i \in 1..Len(Digits) : Digits[i] = c

\* int() of one character; a blank counts as no digit
DigitValue(c) == IF IsDigit(c) THEN (CHOOSE i \in 1..Len(Digits) : Digits[i] = c) - 1 ELSE 0

IsLeap(year) == (year % 4 = 0 /\ year % 100 # 0) \/ year % 400 = 0

DaysInMonth(year, month) ==
    IF month = 2 THEN (IF IsLeap(year) THEN 29 ELSE 28)
    ELSE IF month \in {4, 6, 9, 11} THEN 30 ELSE 31

Date(year, month, day) == [t |-> "date", year |-> year, month |-> month, day |-> day]

\* %m of strptime at position i: the number of characters of the first of
\* 1[0-2], 0[1-9], [1-9] that matches and is followed by the separator
MonthLen(str, i, sep) ==
    IF /\ Len(str) >= i + 2
       /\ \/ str[i] = "1" /\ str[i + 1] \in {"0", "1", "2"}
          \/ str[i] = "0" /\ IsDigit(str[i + 1]) /\ str[i + 1] # "0"
       /\ str[i + 2] = sep
    THEN 2
    ELSE IF /\ Len(str) >= i + 1
            /\ IsDigit(str[i]) /\ str[i] # "0"
            /\ str[i + 1] = sep
    THEN 1
    ELSE 0

\* %d of strptime at position i, last in the format: the number of
\* characters of the first of 3[0-1], [1-2]\d, 0[1-9], [1-9], " [1-9]" that
\* matches
DayLen(str, i) ==
    IF Len(str) >= i + 1 /\ str[i] = "3" /\ str[i + 1] \in {"0", "1"} THEN 2
    ELSE IF Len(str) >= i + 1 /\ str[i] \in {"1", "2"} /\ IsDigit(str[i + 1]) THEN 2
    ELSE IF Len(str) >= i + 1 /\ str[i] = "0" /\ IsDigit(str[i + 1]) /\ str[i + 1] # "0"
    THEN 2
    ELSE IF Len(str) >= i /\ IsDigit(str[i]) /\ str[i] # "0" THEN 1
    ELSE IF Len(str) >= i + 1 /\ str[i] = " " /\ IsDigit(str[i + 1]) /\ str[i + 1] # "0"
    THEN 2
    ELSE 0

\* int() of the characters i..j of str
RECURSIVE IntOf(_, _, _)
IntOf(str, i, j) ==
    IF j < i THEN 0 ELSE 10 * IntOf(str, i, j - 1) + DigitValue(str[j])

\* datetime.strptime(date_string, '%Y<sep>%m<sep>%d').date(): <<the date>>, or
\* <<>> when it raises ValueError
strptime(str, sep) ==
    IF ~(/\ Len(str) >= 5
         /\ \A i \in 1..4 : IsDigit(str[i])
         /\ str[5] = sep)
    THEN <<>>
    ELSE LET mlen == MonthLen(str, 6, sep)
             dlen == DayLen(str, 7 + mlen)
             year == IntOf(str, 1, 4)
             month == IntOf(str, 6, 5 + mlen)
             day == IntOf(str, 7 + mlen, 6 + mlen + dlen)
         IN IF mlen = 0 \/ dlen = 0 \/ 6 + mlen + dlen # Len(str)
            THEN <<>>
            ELSE IF year < 1 \/ day > DaysInMonth(year, month)
            THEN <<>>
            ELSE <<Date(year, month, day)>>

safe_date_parse_one_format(date_string) ==
    IF date_string = <<>>
    THEN None
    ELSE IF strptime(date_string, "-") # <<>>
    THEN strptime(date_string, "-")[1]
    ELSE None

safe_date_parse(date_string) ==
    IF date_string = <<>>
    THEN None
    ELSE IF strptime(date_string, "-") # <<>>
    THEN strptime(date_string, "-")[1]
    ELSE IF strptime(date_string, "/") # <<>>
    THEN strptime(date_string, "/")[1]
    ELSE None

(***************************************************************************)
(* extract_from_file: one attempt of the retry loop.                       *)
(***************************************************************************)
\* The exception the body of the try block raises on service response r,
\* <<>> when it raises none (lines 348-363).
AttemptException(r) ==
    IF r.content = 0
    THEN <<[type |-> "APIError", msg |-> r.msg]>>
    ELSE LET c == Contents[r.content] IN
         IF c.form = "empty"
         THEN <<[type |-> "Exception", msg |-> "Empty response from OpenAI"]>>
         ELSE IF c.form = "malformed"
         THEN <<[type |-> "JSONDecodeError", msg |-> "Expecting value"]>>
         ELSE IF c.json.t # "o"
         THEN <<[type |-> "TypeError", msg |-> "argument must be a mapping"]>>
         ELSE IF ~Valid(Model("ContractExtraction"), c.json)
         THEN <<[type |-> "ValidationError", msg |-> "validation error"]>>
         ELSE <<>>

\* The except clause that catches an exception of the given type.
HandlerOf(type) ==
    CASE type = "JSONDecodeError" -> "parse"
      [] type = "ValidationError" -> "validation"
      [] OTHER -> "api"

\* if attempt == max_retries - 1 (lines 377, 382, 387)
IsFinalAttemptOffByOne(a, limit) == a = limit

IsFinalAttempt(a, limit) == a = limit - 1

\* try: files.delete(file_id) / except: pass -- whether a failed delete
\* reaches the caller (lines 368-371 and 388-391)
DeleteErrorRaised(deleted) == ~deleted

DeleteErrorPropagates(deleted) == FALSE

\* Whether the except clause deletes the uploaded file before its final raise.
ReleasesOnFinalAttempt(handler) == handler = "api"

\* The exception raised to the caller on the final attempt.
TerminalError(exc, n) ==
    CASE HandlerOf(exc.type) = "parse" ->
            [kind |-> "parse", text |-> "Failed to parse OpenAI response as JSON",
             attempts |-> <<n>>, detail |-> <<>>]
      [] HandlerOf(exc.type) = "validation" ->
            [kind |-> "validation", text |-> "OpenAI response doesn't match schema",
             attempts |-> <<n>>, detail |-> <<>>]
      [] OTHER ->
            [kind |-> "api", text |-> "API call failed",
             attempts |-> <<n>>, detail |-> <<exc.msg>>]

PlainError(kind, text) ==
    [kind |-> kind, text |-> text, attempts |-> <<>>, detail |-> <<>>]

DeleteError == PlainError("delete", "files.delete failed")

Call(name, ok) == [call |-> name, ok |-> ok]

\* max_retries = max_retries or config.max_retries
EffectiveRetries(arg) == IF arg = 0 THEN DefaultMaxRetries ELSE arg

\* config.system_prompt_path and config.user_prompt_path
PromptPaths == {"system_prompt_path", "user_prompt_path"}

\* load_prompt (lines 269-277): <<>> when the file is read, else the exception
\* it raises.
load_prompt_ignoring_errors(prompt_path) == <<>>

load_prompt(prompt_path) ==
    IF prompt_path \in prompt_files
    THEN <<>>
    ELSE <<PlainError("prompt", "Prompt file not found")>>

\* A call made by an HTTP handler runs when the handlers of the requests
\* before it have returned: uvicorn.run(app) serves the requests in one event
\* loop and the body of a handler has no await after file.read().  A call
\* made outside a handler runs at any time.
Scheduled(p) ==
    request[p].route = "none" \/ \A q \in Procs : q < p => pc[q] = "done"

\* Lines 285-292: the retry limit and the two prompt files, the system prompt
\* first.
LoadPrompts(p) ==
    /\ Scheduled(p)
    /\ pc[p] = "extract"
    /\ max_retries' = [max_retries EXCEPT ![p] = EffectiveRetries(@)]
    /\ LET raised == IF load_prompt("system_prompt_path") # <<>>
                     THEN load_prompt("system_prompt_path")
                     ELSE load_prompt("user_prompt_path")
       IN IF raised = <<>>
          THEN /\ pc' = [pc EXCEPT ![p] = "upload"]
               /\ error' = error
          ELSE /\ pc' = [pc EXCEPT ![p] = "raised"]
               /\ error' = [error EXCEPT ![p] = raised]
    /\ UNCHANGED <<filename, attempt, file_id, calls, responses, last_failure,
                   remote_files, next_file_id, extraction, db_vars, env_vars>>

\* Lines 296-299: the extension check fails.
RejectExtension(p) ==
    /\ pc[p] = "upload"
    /\ ~IsPdfName(filename[p])
    /\ pc' = [pc EXCEPT ![p] = "raised"]
    /\ error' = [error EXCEPT ![p] =
                    <<PlainError("extension", "File must have .pdf extension")>>]
    /\ UNCHANGED <<orch_vars, extraction, db_vars, env_vars>>

\* tempfile.mkdtemp() of line 301 made a directory and the finally clause of
\* lines 313-315 removed it
MadeAndRemoved(dirs) == [made |-> dirs.made + 1, present |-> dirs.present]

\* tempfile.mkdtemp() made a directory and the finally clause found no file
\* at temp_path: the directory is left
MadeAndLeft(dirs) ==
    [made |-> dirs.made + 1, present |-> dirs.present \cup {dirs.made + 1}]

\* an upload that is tried a second time after a failure
UploadRetried(p) ==
    /\ Scheduled(p)
    /\ pc[p] = "upload"
    /\ IsPdfName(filename[p])
    /\ \E outcome \in {"uploaded", "not created", "write failed", "upload failed"} :
          /\ temp_dirs' = IF outcome = "not created"
                          THEN MadeAndLeft(temp_dirs)
                          ELSE MadeAndRemoved(temp_dirs)
          /\ CASE outcome = "uploaded" ->
                    /\ file_id' = [file_id EXCEPT ![p] = next_file_id]
                    /\ next_file_id' = next_file_id + 1
                    /\ remote_files' = remote_files \cup {next_file_id}
                    /\ calls' = [calls EXCEPT ![p] = Append(@, Call("files.create", TRUE))]
                    /\ pc' = [pc EXCEPT ![p] = "loop"]
                    /\ error' = error
               [] outcome = "upload failed" ->
                    /\ calls' = [calls EXCEPT ![p] = Append(@, Call("files.create", FALSE))]
                    /\ pc' = [pc EXCEPT ![p] = IF calls[p] = <<>> THEN "upload" ELSE "raised"]
                    /\ error' = [error EXCEPT ![p] =
                                    IF calls[p] = <<>> THEN <<>>
                                    ELSE <<PlainError("upload", "files.create failed")>>]
                    /\ UNCHANGED <<file_id, next_file_id, remote_files>>
               [] outcome \in {"not created", "write failed"} ->
                    /\ pc' = [pc EXCEPT ![p] = "raised"]
                    /\ error' = [error EXCEPT ![p] =
                                    <<PlainError("write", "cannot write temporary file")>>]
                    /\ UNCHANGED <<file_id, next_file_id, remote_files, calls>>
    /\ UNCHANGED <<filename, max_retries, attempt, responses, last_failure,
                   extraction, db_vars, prompt_files, completions, set_order,
                   fn_name, fn_arg, fn_result, request, response, output_dir,
                   batch>>

\* Lines 301-317: the temporary directory is made, the copy is written and
\* uploaded with files.create, and the finally clause removes the directory
\* when the copy is there; open(temp_path, 'wb') may fail before the file is
\* made ("not created") and f.write after it ("write failed").
Upload(p) ==
    /\ Scheduled(p)
    /\ pc[p] = "upload"
    /\ IsPdfName(filename[p])
    /\ \E outcome \in {"uploaded", "not created", "write failed", "upload failed"} :
          /\ temp_dirs' = IF outcome = "not created"
                          THEN MadeAndLeft(temp_dirs)
                          ELSE MadeAndRemoved(temp_dirs)
          /\ CASE outcome = "uploaded" ->
                    /\ file_id' = [file_id EXCEPT ![p] = next_file_id]
                    /\ next_file_id' = next_file_id + 1
                    /\ remote_files' = remote_files \cup {next_file_id}
                    /\ calls' = [calls EXCEPT ![p] = Append(@, Call("files.create", TRUE))]
                    /\ pc' = [pc EXCEPT ![p] = "loop"]
                    /\ error' = error
               [] outcome = "upload failed" ->
                    /\ calls' = [calls EXCEPT ![p] = Append(@, Call("files.create", FALSE))]
                    /\ pc' = [pc EXCEPT ![p] = "raised"]
                    /\ error' = [error EXCEPT ![p] =
                                    <<PlainError("upload", "files.create failed")>>]
                    /\ UNCHANGED <<file_id, next_file_id, remote_files>>
               [] outcome \in {"not created", "write failed"} ->
                    /\ pc' = [pc EXCEPT ![p] = "raised"]
                    /\ error' = [error EXCEPT ![p] =
                                    <<PlainError("write", "cannot write temporary file")>>]
                    /\ UNCHANGED <<file_id, next_file_id, remote_files, calls>>
    /\ UNCHANGED <<filename, max_retries, attempt, responses, last_failure,
                   extraction, db_vars, prompt_files, completions, set_order,
                   fn_name, fn_arg, fn_result, request, response, output_dir,
                   batch>>

\* self.client.files.delete(file_id) inside try / except: pass.  The call is
\* logged; deleted tells whether the service removed the file.
NotReleased(p, deleted) ==
    /\ calls' = [calls EXCEPT ![p] = Append(@, Call("chat.completions.create", TRUE))]
    /\ remote_files' = remote_files

\* a delete that empties the store of the service
ReleasedAll(p, deleted) ==
    /\ calls' = [calls EXCEPT ![p] =
                    Append(Append(@, Call("chat.completions.create", TRUE)),
                           Call("files.delete", deleted))]
    /\ remote_files' = IF deleted THEN {} ELSE remote_files

Released(p, deleted) ==
    /\ calls' = [calls EXCEPT ![p] =
                    Append(Append(@, Call("chat.completions.create", TRUE)),
                           Call("files.delete", deleted))]
    /\ remote_files' = IF deleted THEN remote_files \ {file_id[p]} ELSE remote_files

\* Lines 344-373: an attempt whose response parses and validates.
AttemptSucceeds(p) ==
    /\ Scheduled(p)
    /\ pc[p] = "loop"
    /\ attempt[p] < max_retries[p]
    /\ \E r \in completions, deleted \in BOOLEAN :
          /\ AttemptException(r) = <<>>
          /\ responses' = [responses EXCEPT ![p] = Append(@, r)]
          /\ Released(p, deleted)
          /\ IF DeleteErrorPropagates(deleted)
             THEN /\ pc' = [pc EXCEPT ![p] = "raised"]
                  /\ error' = [error EXCEPT ![p] = <<DeleteError>>]
                  /\ extraction' = extraction
             ELSE /\ pc' = [pc EXCEPT ![p] = "returned"]
                  /\ error' = error
                  /\ extraction' = [extraction EXCEPT ![p] =
                        <<Build(Model("ContractExtraction"), Contents[r.content].json)>>]
    /\ UNCHANGED <<filename, max_retries, attempt, file_id, last_failure,
                   next_file_id, db_vars, env_vars>>

\* Lines 375-392: an attempt that fails and is not the last one.
AttemptFailsReleasing(p) ==
    /\ Scheduled(p)
    /\ pc[p] = "loop"
    /\ attempt[p] < max_retries[p]
    /\ ~IsFinalAttempt(attempt[p], max_retries[p])
    /\ \E r \in completions :
          /\ AttemptException(r) # <<>>
          /\ responses' = [responses EXCEPT ![p] = Append(@, r)]
          /\ last_failure' = [last_failure EXCEPT ![p] = AttemptException(r)]
          /\ calls' = [calls EXCEPT ![p] =
                Append(Append(@, Call("chat.completions.create", r.content # 0)),
                       Call("files.delete", TRUE))]
    /\ remote_files' = remote_files \ {file_id[p]}
    /\ attempt' = [attempt EXCEPT ![p] = @ + 1]
    /\ UNCHANGED <<pc, filename, max_retries, file_id, next_file_id,
                   extraction, error, db_vars, env_vars>>

AttemptFails(p) ==
    /\ Scheduled(p)
    /\ pc[p] = "loop"
    /\ attempt[p] < max_retries[p]
    /\ ~IsFinalAttempt(attempt[p], max_retries[p])
    /\ \E r \in completions :
          /\ AttemptException(r) # <<>>
          /\ responses' = [responses EXCEPT ![p] = Append(@, r)]
          /\ last_failure' = [last_failure EXCEPT ![p] = AttemptException(r)]
          /\ calls' = [calls EXCEPT ![p] =
                Append(@, Call("chat.completions.create", r.content # 0))]
    /\ attempt' = [attempt EXCEPT ![p] = @ + 1]
    /\ UNCHANGED <<pc, filename, max_retries, file_id, remote_files, next_file_id,
                   extraction, error, db_vars, env_vars>>

\* Lines 375-392: the last attempt fails.
LastAttemptFails(p) ==
    /\ Scheduled(p)
    /\ pc[p] = "loop"
    /\ attempt[p] < max_retries[p]
    /\ IsFinalAttempt(attempt[p], max_retries[p])
    /\ \E r \in completions :
          /\ AttemptException(r) # <<>>
          /\ responses' = [responses EXCEPT ![p] = Append(@, r)]
          /\ last_failure' = [last_failure EXCEPT ![p] = AttemptException(r)]
          /\ LET exc == AttemptException(r)[1]
                 called == Append(calls[p],
                                  Call("chat.completions.create", r.content # 0))
             IN IF ReleasesOnFinalAttempt(HandlerOf(exc.type))
                THEN \E deleted \in BOOLEAN :
                       /\ calls' = [calls EXCEPT ![p] =
                             Append(called, Call("files.delete", deleted))]
                       /\ remote_files' = IF deleted
                                          THEN remote_files \ {file_id[p]}
                                          ELSE remote_files
                       /\ error' = [error EXCEPT ![p] =
                             IF DeleteErrorPropagates(deleted)
                             THEN <<DeleteError>>
                             ELSE <<TerminalError(exc, max_retries[p])>>]
                ELSE /\ calls' = [calls EXCEPT ![p] = called]
                     /\ remote_files' = remote_files
                     /\ error' = [error EXCEPT ![p] =
                           <<TerminalError(exc, max_retries[p])>>]
    /\ pc' = [pc EXCEPT ![p] = "raised"]
    /\ UNCHANGED <<filename, max_retries, attempt, file_id, next_file_id,
                   extraction, db_vars, env_vars>>

\* Line 394: the loop ends without an attempt having returned or raised.
LoopExhausted(p) ==
    /\ pc[p] = "loop"
    /\ ~(attempt[p] < max_retries[p])
    /\ pc' = [pc EXCEPT ![p] = "raised"]
    /\ error' = [error EXCEPT ![p] =
           <<PlainError("exhausted", "Extraction failed after all retry attempts")>>]
    /\ UNCHANGED <<orch_vars, extraction, db_vars, env_vars>>

(***************************************************************************)
(* Specification of one call of extract_from_file.                         *)
(***************************************************************************)
NoRows == [summaries |-> <<>>, parties |-> <<>>, fees |-> <<>>, rules |-> <<>>]

InitExtract(procs) ==
    /\ pc = [p \in procs |-> "extract"]
    /\ filename \in [procs -> Filenames]
    /\ max_retries \in [procs -> -1..MaxRetriesArg]
    /\ attempt = [p \in procs |-> 0]
    /\ file_id = [p \in procs |-> 0]
    /\ calls = [p \in procs |-> <<>>]
    /\ responses = [p \in procs |-> <<>>]
    /\ last_failure = [p \in procs |-> <<>>]
    /\ extraction = [p \in procs |-> <<>>]
    /\ error = [p \in procs |-> <<>>]
    /\ remote_files = {}
    /\ next_file_id = 1
    /\ prompt_files \in SUBSET PromptPaths
    /\ completions = ServiceResponses
    /\ set_order = FirstAdded
    /\ fn_name = "none" /\ fn_arg = None /\ fn_result = <<>>

\* no temporary directory was made, none is there
NoTempDirs == [made |-> 0, present |-> {}]

\* the lists of extract_multiple_contracts (lines 583-584) and no response
NoBatch == [results |-> <<>>, errors |-> <<>>, response |-> <<>>]

\* no request under way, an empty output directory
InitApiIdle(procs) ==
    /\ request = [p \in procs |-> [route |-> "none", id |-> 0, limit |-> 0, offset |-> 0]]
    /\ response = [p \in procs |-> <<>>]
    /\ output_dir = {}
    /\ temp_dirs = NoTempDirs
    /\ batch = NoBatch

InitDbIdle(procs) ==
    /\ InitApiIdle(procs)
    /\ file_content = [p \in procs |-> 0]
    /\ tx = [p \in procs |-> NoRows]
    /\ contract_db_id = [p \in procs |-> 0]
    /\ db_id = [p \in procs |-> <<>>]
    /\ session = [p \in procs |-> <<>>]
    /\ store = NoRows
    /\ next_id = 1

Init == InitExtract({1}) /\ InitDbIdle({1})

Next ==
    \/ \E p \in Procs : LoadPrompts(p)
    \/ \E p \in Procs : RejectExtension(p)
    \/ \E p \in Procs : Upload(p)
    \/ \E p \in Procs : AttemptSucceeds(p)
    \/ \E p \in Procs : AttemptFails(p)
    \/ \E p \in Procs : LastAttemptFails(p)
    \/ \E p \in Procs : LoopExhausted(p)

Spec == Init /\ [][Next]_vars


(***************************************************************************)
(* Properties of extract_from_file.                                        *)
(***************************************************************************)
CountCalls(p, name) == Cardinality({i \in 1..Len(calls[p]) : calls[p][i].call = name})

RetryKinds == {"parse", "validation", "api"}

Failed(r) == AttemptException(r) # <<>>

\* C33: the document upload is issued at most once by an orchestration and
\* once by every orchestration that got past it; after a failed upload the
\* orchestration has raised, and the failed upload is the only external call it
\* issued: no completion call and no handle release
C33_UploadOnceNeverRetried ==
    \A p \in Procs :
        /\ CountCalls(p, "files.create") <= 1
        /\ (pc[p] = "loop" \/ file_id[p] # 0) =>
               /\ CountCalls(p, "files.create") = 1
               /\ calls[p][1] = Call("files.create", TRUE)
        /\ (\E i \in 1..Len(calls[p]) : calls[p][i] = Call("files.create", FALSE)) =>
               /\ pc[p] = "raised"
               /\ calls[p] = <<Call("files.create", FALSE)>>
               /\ error[p] = <<PlainError("upload", "files.create failed")>>
               /\ extraction[p] = <<>>
               /\ responses[p] = <<>>
               /\ file_id[p] = 0

\* the upload failed and the orchestration raised
C33_Witness ==
    \E p \in Procs :
        /\ pc[p] = "raised"
        /\ calls[p] = <<Call("files.create", FALSE)>>
        /\ CountCalls(p, "chat.completions.create") = 0
        /\ CountCalls(p, "files.delete") = 0

\* C37: once the upload phase of extract_from_file is over, with the upload
\* made, the upload refused or the temporary file not written, no directory
\* that tempfile.mkdtemp made is left; an orchestration whose extension check
\* failed made none
C37_TempDirsRemoved ==
    \A p \in Procs :
        /\ pc[p] \in {"loop", "returned", "raised"} => temp_dirs.present = {}
        /\ (pc[p] = "raised" /\ ~IsPdfName(filename[p])) => temp_dirs.made = 0

\* the upload succeeded and every one of the max_retries attempts failed
AllAttemptsFailed(p) ==
    /\ pc[p] = "raised"
    /\ file_id[p] # 0
    /\ max_retries[p] >= 1
    /\ Len(responses[p]) = max_retries[p]
    /\ \A i \in 1..Len(responses[p]) : Failed(responses[p][i])

\* C1: once the document is uploaded and all max_attempts attempts have failed,
\* whatever the kind of the failures, files.delete has been attempted exactly
\* once (and exactly max_attempts completion calls were made) when the terminal
\* error is returned.
C1_ReleaseOnceOnTerminalFailure ==
    \A p \in Procs :
        AllAttemptsFailed(p) =>
            /\ CountCalls(p, "chat.completions.create") = max_retries[p]
            /\ CountCalls(p, "files.delete") = 1
            /\ calls[p][Len(calls[p])].call = "files.delete"

\* C2: when the first valid response comes on attempt k <= max_attempts,
\* exactly k completion calls are issued, the value validated on attempt k is
\* returned, and files.delete is attempted exactly once, as the last call,
\* after the k-th completion call and never between attempts.
C2_SuccessOnAttemptK ==
    \A p \in Procs :
        /\ \A i \in 1..Len(responses[p]) :
              ~Failed(responses[p][i]) => i = Len(responses[p]) /\ pc[p] = "returned"
        /\ pc[p] = "returned" =>
              LET k == Len(responses[p]) IN
              /\ k >= 1 /\ k <= max_retries[p]
              /\ ~Failed(responses[p][k])
              /\ extraction[p] = <<Build(Model("ContractExtraction"),
                                         Contents[responses[p][k].content].json)>>
              /\ error[p] = <<>>
              /\ Len(calls[p]) = k + 2
              /\ calls[p][1].call = "files.create"
              /\ \A i \in 2..(k + 1) : calls[p][i].call = "chat.completions.create"
              /\ calls[p][k + 2].call = "files.delete"
        /\ pc[p] = "loop" => CountCalls(p, "files.delete") = 0

C2_Witness ==
    \E p \in Procs :
        /\ pc[p] = "returned"
        /\ max_retries[p] = 3
        /\ Len(responses[p]) = 3
        /\ AttemptException(responses[p][1]) # <<>>
        /\ AttemptException(responses[p][1])[1].type = "ValidationError"
        /\ AttemptException(responses[p][2])[1].type = "ValidationError"
        /\ CountCalls(p, "files.delete") = 1

\* C3: with a retry limit of at least 1, a failed attempt k < max_attempts of
\* any kind leaves the orchestration in the loop with no error and the next
\* attempt enabled; an error of the retry loop is raised only when exactly
\* max_attempts completion calls have been issued and all failed; never more
\* than max_attempts calls are issued; and the orchestration is never stuck
\* before it has returned a value or raised an error.
C3_RetryUntilLimit ==
    \A p \in Procs :
        (pc[p] # "extract" /\ max_retries[p] >= 1) =>
            /\ CountCalls(p, "chat.completions.create") = Len(responses[p])
            /\ Len(responses[p]) <= max_retries[p]
            /\ pc[p] = "loop" =>
                  /\ error[p] = <<>>
                  /\ attempt[p] = Len(responses[p])
                  /\ attempt[p] < max_retries[p]
                  /\ \A i \in 1..Len(responses[p]) : Failed(responses[p][i])
                  /\ ENABLED (AttemptFails(p) \/ LastAttemptFails(p))
                  /\ ENABLED AttemptSucceeds(p)
            /\ (pc[p] = "raised" /\ file_id[p] # 0) =>
                  /\ error[p] # <<>>
                  /\ error[p][1].kind \in RetryKinds
                  /\ Len(responses[p]) = max_retries[p]
                  /\ \A i \in 1..Len(responses[p]) : Failed(responses[p][i])
            /\ pc[p] \in {"returned", "raised"} => (extraction[p] = <<>>) # (error[p] = <<>>)
            /\ pc[p] \in {"returned", "raised"} \/ ENABLED Next

C3_Witness ==
    \E p \in Procs :
        /\ pc[p] = "loop"
        /\ max_retries[p] = 3
        /\ attempt[p] = 2
        /\ {AttemptException(responses[p][i])[1].type : i \in 1..2}
              = {"Exception", "JSONDecodeError"}

\* C4: the terminal error raised after max_attempts failed attempts is labeled
\* with the kind of the final attempt's failure and with the count
\* max_attempts, and carries that failure's message.
C4_TerminalErrorCarriesLastFailure ==
    \A p \in Procs :
        AllAttemptsFailed(p) =>
            /\ error[p] # <<>>
            /\ error[p][1].kind = HandlerOf(last_failure[p][1].type)
            /\ error[p][1].attempts = <<max_retries[p]>>
            /\ error[p][1].detail = <<last_failure[p][1].msg>>

\* names that end in .pdf, case-insensitively, among Filenames
PdfFilenames ==
    { <<"c", "o", "n", "t", "r", "a", "c", "t", ".", "p", "d", "f">>,
      <<"c", "o", "n", "t", "r", "a", "c", "t", ".", "P", "D", "F">>,
      <<"a", ".", "P", "d", "f">> }

\* C6: a filename that does not end in .pdf (case-insensitively) is rejected
\* with no upload, no completion call and no retry; a name such as
\* contract.PDF passes the check and proceeds to the upload.
C6_ExtensionCheck ==
    \A p \in Procs :
        /\ filename[p] \notin PdfFilenames =>
              /\ calls[p] = <<>> /\ responses[p] = <<>> /\ file_id[p] = 0
              /\ attempt[p] = 0 /\ extraction[p] = <<>>
              /\ pc[p] \in {"extract", "upload", "raised"}
              /\ pc[p] = "upload" => ENABLED RejectExtension(p) /\ ~ENABLED Upload(p)
        /\ filename[p] \in PdfFilenames =>
              /\ pc[p] = "upload" => ENABLED Upload(p) /\ ~ENABLED RejectExtension(p)
              /\ error[p] # <<>> => error[p][1].kind # "extension"

C6_Witness ==
    \E p \in Procs :
        /\ filename[p] = <<"c", "o", "n", "t", "r", "a", "c", "t", ".", "P", "D", "F">>
        /\ file_id[p] # 0
        /\ calls[p] = <<Call("files.create", TRUE)>>

\* files.delete was called and failed
ReleaseFailed(p) ==
    \E i \in 1..Len(calls[p]) : calls[p][i].call = "files.delete" /\ ~calls[p][i].ok

\* C7: a failed files.delete never changes the outcome: after a valid response
\* the validated value is still returned, after a final failed attempt the
\* terminal error of that failure's kind is still raised, and the delete
\* failure itself never reaches the caller.
C7_ReleaseFailureSwallowed ==
    \A p \in Procs :
        ReleaseFailed(p) =>
            LET last == responses[p][Len(responses[p])] IN
            IF Failed(last)
            THEN /\ pc[p] = "raised"
                 /\ extraction[p] = <<>>
                 /\ error[p] = <<TerminalError(AttemptException(last)[1], max_retries[p])>>
                 /\ error[p][1].kind = HandlerOf(AttemptException(last)[1].type)
            ELSE /\ pc[p] = "returned"
                 /\ error[p] = <<>>
                 /\ extraction[p] = <<Build(Model("ContractExtraction"),
                                            Contents[last.content].json)>>

C7_Witness ==
    \E p \in Procs :
        /\ ReleaseFailed(p)
        /\ pc[p] = "raised"
        /\ file_id[p] \in remote_files

C7_WitnessSuccess ==
    \E p \in Procs : ReleaseFailed(p) /\ pc[p] = "returned"

\* The schema read strictly: every object has exactly the declared fields.
RECURSIVE Conforms(_, _)
Conforms(ty, j) ==
    CASE ty.k = "list" ->
            j.t = "a" /\ \A i \in 1..Len(j.a) : Conforms(ElemType(ty.of), j.a[i])
      [] ty.k = "model" ->
            /\ j.t = "o"
            /\ DOMAIN j.o = Fields(ty.of)
            /\ \A f \in Fields(ty.of) : Conforms(Schema[ty.of][f], j.o[f])
      [] OTHER -> Valid(ty, j)

\* C10: a well-formed response with an unknown field at any object level, or
\* without a required field, is never accepted as a ContractExtraction.
C10_NoExtraFieldAccepted ==
    \A p \in Procs :
        \A i \in 1..Len(responses[p]) :
            LET r == responses[p][i] IN
            (r.content # 0 /\ Contents[r.content].form = "json"
                /\ ~Conforms(Model("ContractExtraction"), Contents[r.content].json))
            => Failed(r)

\* overall_confidence, in hundredths, of a JSON document or a validated value
ConfidenceOf(doc) == doc.o.extraction_metadata.o.overall_confidence.n

ConfidenceInRange(doc) == ConfidenceOf(doc) >= 0 /\ ConfidenceOf(doc) <= 100

\* C21: every value extract_from_file returns has an overall_confidence
\* between 0.0 and 1.0 inclusive, and a response that is a complete document
\* with a confidence outside that range fails the attempt.
C21_ConfidenceInUnitRange ==
    \A p \in Procs :
        /\ extraction[p] # <<>> => ConfidenceInRange(extraction[p][1])
        /\ \A i \in 1..Len(responses[p]) :
              LET r == responses[p][i] IN
              (/\ r.content # 0
               /\ Contents[r.content].form = "json"
               /\ Conforms(Model("ContractExtraction"), Contents[r.content].json)
               /\ ~ConfidenceInRange(Contents[r.content].json))
              => Failed(r)

\* C11: when the system prompt or the user prompt cannot be loaded, the call
\* fails at once: it raises the prompt error without entering the retry loop
\* and without any upload, completion or delete call, so that no file is
\* stored at the service.
C11_PromptFailureBeforeAnyCall ==
    \A p \in Procs :
        (pc[p] # "extract" /\ prompt_files # PromptPaths) =>
            /\ pc[p] = "raised"
            /\ error[p] = <<PlainError("prompt", "Prompt file not found")>>
            /\ extraction[p] = <<>>
            /\ calls[p] = <<>>
            /\ responses[p] = <<>>
            /\ attempt[p] = 0
            /\ file_id[p] = 0
            /\ remote_files = {}

\* the system prompt is read and the user prompt is not
C11_Witness ==
    \E p \in Procs :
        /\ pc[p] = "raised"
        /\ prompt_files = {"system_prompt_path"}
        /\ error[p] = <<PlainError("prompt", "Prompt file not found")>>

\* C27: in every execution of extract_from_file files.delete is attempted at
\* most once, and no completion call is issued after it.
C27_ReleaseAtMostOnceAndLast ==
    \A p \in Procs :
        /\ CountCalls(p, "files.delete") <= 1
        /\ \A i, j \in 1..Len(calls[p]) :
              (i < j /\ calls[p][i].call = "files.delete")
                  => calls[p][j].call # "chat.completions.create"

\* a release after three completion calls, the last of which failed
C27_Witness ==
    \E p \in Procs :
        /\ pc[p] = "raised"
        /\ CountCalls(p, "chat.completions.create") = 3
        /\ CountCalls(p, "files.delete") = 1

\* C28: for every integer max_retries (0 and the negative ones included), a
\* call whose upload succeeded and that raises an error has issued at least
\* one completion call and has attempted to delete the uploaded file.
C28_ErrorOnlyAfterCallAndRelease ==
    \A p \in Procs :
        (pc[p] = "raised" /\ file_id[p] # 0) =>
            /\ CountCalls(p, "chat.completions.create") >= 1
            /\ CountCalls(p, "files.delete") >= 1

(***************************************************************************)
(* save_to_database: the rows built from a validated extraction.           *)
(***************************************************************************)
\* the arguments of the calls of save_to_database that are tried: a value
\* extract_from_file can return, and the document bytes
SaveInputList ==
    << [extraction |-> Build(Model("ContractExtraction"), DocA),
        file_content |-> <<37, 80>>],
       [extraction |-> Build(Model("ContractExtraction"), DocB),
        file_content |-> <<37, 80, 68, 70>>],
       [extraction |-> Build(Model("ContractExtraction"), DocC),
        file_content |-> <<37, 80>>] >>

SaveInputs == {SaveInputList[i] : i \in 1..Len(SaveInputList)}

\* the SHA-256 digest of the bytes, as an uninterpreted value
calculate_file_hash(content) == <<"sha256", content>>

\* json.dumps of a dict for a JSONB column: an Enum member that is a str is
\* written as its value
RECURSIVE ToJsonb(_)
ToJsonb(v) ==
    CASE v.t = "e" -> S(v.s)
      [] v.t = "a" -> A([i \in 1..Len(v.a) |-> ToJsonb(v.a[i])])
      [] v.t = "o" -> O([f \in DOMAIN v.o |-> ToJsonb(v.o[f])])
      [] OTHER -> v

\* the text of a value bound to a VARCHAR / TEXT column
ColumnText(v) == IF v.t = "n" THEN <<"number", v.n>> ELSE <<"text", v.s>>

SummaryRowMisplacedBlob(id, x, name, content) ==
    LET metadata == model_dump("ContractMetadata", x.o.contract_metadata)
        financial_terms == model_dump("FinancialTerms", x.o.financial_terms)
        pricing_rules == model_dump("PricingRules", x.o.pricing_rules)
        extraction_metadata ==
            model_dump("ExtractionMetadata", x.o.extraction_metadata)
        characteristics == analyze_financial_characteristics(financial_terms).value
    IN [ id |-> id,
         document_title |-> metadata.o.document_title.s,
         contract_type |-> metadata.o.contract_type.s,
         effective_date |-> safe_date_parse(Chars(metadata.o.effective_date.s)),
         end_date |-> safe_date_parse(Chars(metadata.o.end_date.s)),
         total_pages |-> metadata.o.total_pages.n,
         governing_law |-> metadata.o.governing_law.s,
         jurisdiction |-> metadata.o.jurisdiction.s,
         total_base_compensation_count |-> Len(financial_terms.o.base_compensation.a),
         total_fees_count |-> Len(financial_terms.o.fees.a),
         total_royalties_count |-> Len(financial_terms.o.royalties.a),
         total_equity_count |-> Len(financial_terms.o.equity_compensation.a),
         total_expenses_count |-> Len(financial_terms.o.expenses.a),
         total_pricing_rules_count |-> Len(pricing_rules.o.rules.a),
         has_tiered_structures |-> characteristics.has_tiered_structures,
         has_commissions |-> characteristics.has_commissions,
         has_asset_based_fees |-> characteristics.has_asset_based_fees,
         multi_currency_flag |-> characteristics.multi_currency_flag,
         primary_currency |-> characteristics.primary_currency,
         overall_confidence |-> extraction_metadata.o.overall_confidence.n,
         redacted_fields_count |-> extraction_metadata.o.redacted_fields_count.n,
         processing_warnings_count |->
             Len(extraction_metadata.o.processing_warnings.a),
         model_used |-> extraction_metadata.o.model_used.s,
         contract_metadata_json |-> ToJsonb(metadata),
         financial_terms_json |-> ToJsonb(financial_terms),
         pricing_rules_json |-> ToJsonb(pricing_rules),
         extraction_metadata_json |-> ToJsonb(metadata),
         source_file_name |-> name,
         source_file_size |-> Len(content),
         file_hash |-> calculate_file_hash(content) ]

\* ContractExtractionDB(...) of lines 433-473, with the id the flush assigns
SummaryRow(id, x, name, content) ==
    LET metadata == model_dump("ContractMetadata", x.o.contract_metadata)
        financial_terms == model_dump("FinancialTerms", x.o.financial_terms)
        pricing_rules == model_dump("PricingRules", x.o.pricing_rules)
        extraction_metadata ==
            model_dump("ExtractionMetadata", x.o.extraction_metadata)
        characteristics == analyze_financial_characteristics(financial_terms).value
    IN [ id |-> id,
         document_title |-> metadata.o.document_title.s,
         contract_type |-> metadata.o.contract_type.s,
         effective_date |-> safe_date_parse(Chars(metadata.o.effective_date.s)),
         end_date |-> safe_date_parse(Chars(metadata.o.end_date.s)),
         total_pages |-> metadata.o.total_pages.n,
         governing_law |-> metadata.o.governing_law.s,
         jurisdiction |-> metadata.o.jurisdiction.s,
         total_base_compensation_count |-> Len(financial_terms.o.base_compensation.a),
         total_fees_count |-> Len(financial_terms.o.fees.a),
         total_royalties_count |-> Len(financial_terms.o.royalties.a),
         total_equity_count |-> Len(financial_terms.o.equity_compensation.a),
         total_expenses_count |-> Len(financial_terms.o.expenses.a),
         total_pricing_rules_count |-> Len(pricing_rules.o.rules.a),
         has_tiered_structures |-> characteristics.has_tiered_structures,
         has_commissions |-> characteristics.has_commissions,
         has_asset_based_fees |-> characteristics.has_asset_based_fees,
         multi_currency_flag |-> characteristics.multi_currency_flag,
         primary_currency |-> characteristics.primary_currency,
         overall_confidence |-> extraction_metadata.o.overall_confidence.n,
         redacted_fields_count |-> extraction_metadata.o.redacted_fields_count.n,
         processing_warnings_count |->
             Len(extraction_metadata.o.processing_warnings.a),
         model_used |-> extraction_metadata.o.model_used.s,
         contract_metadata_json |-> ToJsonb(metadata),
         financial_terms_json |-> ToJsonb(financial_terms),
         pricing_rules_json |-> ToJsonb(pricing_rules),
         extraction_metadata_json |-> ToJsonb(extraction_metadata),
         source_file_name |-> name,
         source_file_size |-> Len(content),
         file_hash |-> calculate_file_hash(content) ]

\* ContractPartyDB(...) of lines 480-488
PartyRow(id, party) ==
    [ contract_extraction_id |-> id,
      entity_name |-> party.o.entity_name.s,
      entity_type |-> party.o.entity_type.s,
      role |-> party.o.role.s,
      address |-> party.o.address.s,
      jurisdiction |-> party.o.jurisdiction.s,
      normalized_name |-> normalize_name(Chars(party.o.entity_name.s)) ]

\* bool(value) of a str, float or int
bool(v) == IF v.t = "n" THEN v.n # 0 ELSE v.s # ""

\* the analysis flags of a fee row (lines 493-494 and 507-512)
FeeFlags(fee) ==
    LET fee_type == lower(Chars(fee.o.fee_type.s))
        calculation == lower(Chars(fee.o.calculation_method.s))
    IN [ is_tiered |-> \/ contains(fee_type, Chars("tiered"))
                       \/ contains(calculation, Chars("tier")),
         is_asset_based |-> \/ contains(fee_type, Chars("asset"))
                            \/ contains(calculation, Chars("asset")),
         is_commission |-> contains(fee_type, Chars("commission")),
         has_minimum |-> bool(fee.o.minimum_amount.o.value),
         has_maximum |-> bool(fee.o.maximum_amount.o.value),
         is_redacted |-> fee.o.amount.o.is_redacted.b ]

FeeRowUnlinked(id, fee) ==
    [ contract_extraction_id |-> 0,
      fee_description |-> fee.o.description.s,
      fee_type |-> fee.o.fee_type.s,
      amount_value |-> ColumnText(fee.o.amount.o.value),
      amount_currency |-> fee.o.amount.o.currency.s,
      calculation_method |-> fee.o.calculation_method.s,
      frequency |-> fee.o.frequency.s,
      applies_to |-> fee.o.applies_to.s ] @@ FeeFlags(fee)

\* ContractFeeDB(...) of lines 496-513
FeeRow(id, fee) ==
    [ contract_extraction_id |-> id,
      fee_description |-> fee.o.description.s,
      fee_type |-> fee.o.fee_type.s,
      amount_value |-> ColumnText(fee.o.amount.o.value),
      amount_currency |-> fee.o.amount.o.currency.s,
      calculation_method |-> fee.o.calculation_method.s,
      frequency |-> fee.o.frequency.s,
      applies_to |-> fee.o.applies_to.s ] @@ FeeFlags(fee)

\* PricingRuleDB(...) of lines 518-527
RuleRow(id, rule) ==
    [ contract_extraction_id |-> id,
      rule_name |-> rule.o.rule_name.s,
      rule_description |-> rule.o.rule_description.s,
      rule_type |-> rule.o.rule_type.s,
      triggers |-> rule.o.triggers.s,
      calculation_summary |-> rule.o.calculation.s,
      applies_to |-> rule.o.applies_to.s,
      effective_period |-> rule.o.effective_period.s ]

\* the lists the three loops of save_to_database run over
PartiesOf(x) == model_dump("ContractMetadata", x.o.contract_metadata).o.parties.a
FeesOf(x) == model_dump("FinancialTerms", x.o.financial_terms).o.fees.a
RulesOf(x) == model_dump("PricingRules", x.o.pricing_rules).o.rules.a

\* CHECK (overall_confidence >= 0 AND overall_confidence <= 1), in hundredths
SummaryConstraintsHold(row) ==
    row.overall_confidence >= 0 /\ row.overall_confidence <= 100

\* The uniqueness constraints of contract_extractions against the stored
\* rows: id is the PRIMARY KEY; the index on file_hash is not UNIQUE.
UniqueViolationOnHash(row, rows) ==
    \E i \in 1..Len(rows) : rows[i].id = row.id \/ rows[i].file_hash = row.file_hash

UniqueViolation(row, rows) == \E i \in 1..Len(rows) : rows[i].id = row.id


(***************************************************************************)
(* save_to_database: the session and its transaction.  Rows written by a   *)
(* flush are in tx, visible to the writing session only, until COMMIT      *)
(* moves them into store; ROLLBACK discards them.                          *)
(***************************************************************************)
Prefix(seq, n) == SubSeq(seq, 1, n)

\* the rows the three loops of save_to_database add to the session
PartyRowsOfFirstRecord(id, items) == [i \in 1..Len(items) |-> PartyRow(1, items[i])]

PartyRows(id, items) == [i \in 1..Len(items) |-> PartyRow(id, items[i])]
FeeRowsSharingFlags(id, items) ==
    [i \in 1..Len(items) |->
        [FeeRow(id, items[i]) EXCEPT
            !.is_tiered = \E j \in 1..Len(items) : FeeFlags(items[j]).is_tiered,
            !.is_commission = \E j \in 1..Len(items) : FeeFlags(items[j]).is_commission]]

FeeRows(id, items) == [i \in 1..Len(items) |-> FeeRow(id, items[i])]

\* a loop over the rules that leaves the last one out
RuleRowsButLast(id, items) == [i \in 1..Len(items) - 1 |-> RuleRow(id, items[i])]

RuleRows(id, items) == [i \in 1..Len(items) |-> RuleRow(id, items[i])]

\* lines 414-476: open the session, build the summary row, db.add, db.flush
InsertSummary(p) ==
    /\ Scheduled(p)
    /\ pc[p] = "save"
    /\ session' = [session EXCEPT ![p] = <<"SessionLocal">>]
    /\ \E outcome \in {"inserted", "rejected", "no connection"} :
          \E row \in {SummaryRow(next_id, extraction[p][1], filename[p],
                                  file_content[p])} :
             CASE outcome = "inserted" ->
                    /\ SummaryConstraintsHold(row)
                    /\ ~UniqueViolation(row, store.summaries)
                    /\ tx' = [tx EXCEPT ![p].summaries = <<row>>]
                    /\ contract_db_id' = [contract_db_id EXCEPT ![p] = next_id]
                    /\ next_id' = next_id + 1
                    /\ pc' = [pc EXCEPT ![p] = "save_parties"]
               [] outcome = "rejected" ->
                    \* the INSERT took a value of the sequence and then failed
                    /\ next_id' = next_id + 1
                    /\ pc' = [pc EXCEPT ![p] = "save_except"]
                    /\ UNCHANGED <<tx, contract_db_id>>
               [] outcome = "no connection" ->
                    /\ SummaryConstraintsHold(row)
                    /\ pc' = [pc EXCEPT ![p] = "save_except"]
                    /\ UNCHANGED <<tx, contract_db_id, next_id>>
    /\ UNCHANGED <<orch_vars, extraction, error, file_content, db_id, store, env_vars>>

\* lines 479-489 and the flush of db.commit(): the party rows; the INSERT of
\* row n + 1 fails when n is less than their number
InsertParties(p) ==
    /\ Scheduled(p)
    /\ pc[p] = "save_parties"
    /\ \E rows \in {PartyRows(contract_db_id[p], PartiesOf(extraction[p][1]))} :
          \E n \in 0..Len(rows) :
             /\ tx' = [tx EXCEPT ![p].parties = Prefix(rows, n)]
             /\ pc' = [pc EXCEPT ![p] =
                          IF n = Len(rows) THEN "save_fees" ELSE "save_except"]
    /\ UNCHANGED <<orch_vars, extraction, error, file_content, contract_db_id,
                   db_id, session, store, next_id, env_vars>>

\* lines 492-514 and the flush of db.commit(): the fee rows
InsertFees(p) ==
    /\ Scheduled(p)
    /\ pc[p] = "save_fees"
    /\ \E rows \in {FeeRows(contract_db_id[p], FeesOf(extraction[p][1]))} :
          \E n \in 0..Len(rows) :
             /\ tx' = [tx EXCEPT ![p].fees = Prefix(rows, n)]
             /\ pc' = [pc EXCEPT ![p] =
                          IF n = Len(rows) THEN "save_rules" ELSE "save_except"]
    /\ UNCHANGED <<orch_vars, extraction, error, file_content, contract_db_id,
                   db_id, session, store, next_id, env_vars>>

\* lines 517-528 and the flush of db.commit(): the pricing-rule rows
InsertRules(p) ==
    /\ Scheduled(p)
    /\ pc[p] = "save_rules"
    /\ \E rows \in {RuleRows(contract_db_id[p], RulesOf(extraction[p][1]))} :
          \E n \in 0..Len(rows) :
             /\ tx' = [tx EXCEPT ![p].rules = Prefix(rows, n)]
             /\ pc' = [pc EXCEPT ![p] =
                          IF n = Len(rows) THEN "save_commit" ELSE "save_except"]
    /\ UNCHANGED <<orch_vars, extraction, error, file_content, contract_db_id,
                   db_id, session, store, next_id, env_vars>>

\* a commit that writes the tables anew from the rows of the transaction
CommittedReplacing(st, t) ==
    [ summaries |-> t.summaries,
      parties |-> t.parties,
      fees |-> t.fees,
      rules |-> t.rules ]

\* COMMIT: the rows of the transaction become rows of the tables
Committed(st, t) ==
    [ summaries |-> st.summaries \o t.summaries,
      parties |-> st.parties \o t.parties,
      fees |-> st.fees \o t.fees,
      rules |-> st.rules \o t.rules ]

\* db.rollback() of line 535 (and of get_database_session): the tables after
\* the transaction t was abandoned
RolledBackKeepsRows(st, t) == Committed(st, t)

RolledBack(st, t) == st

\* lines 530-532 and 188-189: db.commit() succeeds, the id is returned, the
\* finally clause closes the session
Commit(p) ==
    /\ Scheduled(p)
    /\ pc[p] = "save_commit"
    /\ store' = Committed(store, tx[p])
    /\ tx' = [tx EXCEPT ![p] = NoRows]
    /\ db_id' = [db_id EXCEPT ![p] = <<contract_db_id[p]>>]
    /\ session' = [session EXCEPT ![p] = @ \o <<"commit", "close">>]
    /\ pc' = [pc EXCEPT ![p] = "saved"]
    /\ UNCHANGED <<orch_vars, extraction, error, file_content, contract_db_id,
                   next_id, env_vars>>

\* line 530: the COMMIT itself fails
CommitFails(p) ==
    /\ Scheduled(p)
    /\ pc[p] = "save_commit"
    /\ pc' = [pc EXCEPT ![p] = "save_except"]
    /\ UNCHANGED <<orch_vars, db_vars, extraction, error, env_vars>>

\* a failing path whose session is never closed
RollbackLeavingOpen(p) ==
    /\ Scheduled(p)
    /\ pc[p] = "save_except"
    /\ store' = RolledBack(store, tx[p])
    /\ tx' = [tx EXCEPT ![p] = NoRows]
    /\ error' = [error EXCEPT ![p] = <<PlainError("database", "Database save failed")>>]
    /\ session' = [session EXCEPT ![p] = @ \o <<"rollback", "rollback">>]
    /\ pc' = [pc EXCEPT ![p] = "save_raised"]
    /\ UNCHANGED <<orch_vars, extraction, file_content, contract_db_id, db_id,
                   next_id, env_vars>>

\* lines 534-536 and 185-189: db.rollback() of the handler, raise,
\* db.rollback() of the context manager, raise, db.close() of its finally clause
Rollback(p) ==
    /\ Scheduled(p)
    /\ pc[p] = "save_except"
    /\ store' = RolledBack(store, tx[p])
    /\ tx' = [tx EXCEPT ![p] = NoRows]
    /\ error' = [error EXCEPT ![p] = <<PlainError("database", "Database save failed")>>]
    /\ session' = [session EXCEPT ![p] = @ \o <<"rollback", "rollback", "close">>]
    /\ pc' = [pc EXCEPT ![p] = "save_raised"]
    /\ UNCHANGED <<orch_vars, extraction, file_content, contract_db_id, db_id,
                   next_id, env_vars>>

\* GET /extractions/{extraction_id}: <<>> stands for the 404 response
get_extraction(extraction_id) ==
    LET found == SelectSeq(store.summaries, LAMBDA row : row.id = extraction_id)
    IN IF found = <<>>
       THEN <<>>
       ELSE <<[ id |-> found[1].id,
                document_title |-> found[1].document_title,
                contract_type |-> found[1].contract_type,
                confidence |-> found[1].overall_confidence,
                file_name |-> found[1].source_file_name,
                metadata |-> found[1].contract_metadata_json,
                financial_terms |-> found[1].financial_terms_json,
                pricing_rules |-> found[1].pricing_rules_json ]>>

(***************************************************************************)
(* Specification of concurrent calls of save_to_database, each with a      *)
(* validated extraction.                                                   *)
(***************************************************************************)
\* number of concurrent submissions
NumSavers == 2

\* The calls run the same code, so their arguments are given in the order
\* of SaveInputList: every other assignment is one of these with the calls
\* renamed.
SortedInputs(procs) ==
    {input \in [procs -> 1..Len(SaveInputList)] :
        \A p, q \in procs : p <= q => input[p] <= input[q]}

\* the currencies of a validated extraction in the order the analysis adds
\* them to its set
CurrenciesAdded(x) ==
    LET financial_terms == model_dump("FinancialTerms", x.o.financial_terms)
        afterFees == AnalyzeLoop(1, NoCharacteristics, financial_terms.o.fees.a, 1)
    IN AnalyzeLoop(2, afterFees.value, financial_terms.o.base_compensation.a, 1)
           .value.currencies

\* Iteration orders that differ only on sets the calls never build behave
\* alike: one order is kept for each behaviour on the sets that are built.
SetOrdersFor(built) ==
    {order \in SetOrders :
        \A q \in InsertionSeqs \ built : order[q] = FirstAdded[q]}

InitSave(procs) ==
    /\ pc = [p \in procs |-> "save"]
    /\ filename \in [procs -> {<<"c", "o", "n", "t", "r", "a", "c", "t", ".", "p", "d", "f">>}]
    /\ max_retries = [p \in procs |-> DefaultMaxRetries]
    /\ attempt = [p \in procs |-> 0]
    /\ file_id = [p \in procs |-> 0]
    /\ calls = [p \in procs |-> <<>>]
    /\ responses = [p \in procs |-> <<>>]
    /\ last_failure = [p \in procs |-> <<>>]
    /\ error = [p \in procs |-> <<>>]
    /\ remote_files = {}
    /\ next_file_id = 1
    /\ prompt_files = PromptPaths
    /\ completions = ServiceResponses
    /\ fn_name = "none" /\ fn_arg = None /\ fn_result = <<>>
    /\ \E input \in SortedInputs(procs) :
          /\ extraction = [p \in procs |-> <<SaveInputList[input[p]].extraction>>]
          /\ file_content = [p \in procs |-> SaveInputList[input[p]].file_content]
          /\ set_order \in SetOrdersFor(
                 {CurrenciesAdded(SaveInputList[input[p]].extraction) : p \in procs})
    /\ tx = [p \in procs |-> NoRows]
    /\ contract_db_id = [p \in procs |-> 0]
    /\ db_id = [p \in procs |-> <<>>]
    /\ session = [p \in procs |-> <<>>]
    /\ store = NoRows
    /\ next_id = 1
    /\ InitApiIdle(procs)

InitDB == InitSave(1..NumSavers)

NextDB ==
    \/ \E p \in Procs : InsertSummary(p)
    \/ \E p \in Procs : InsertParties(p)
    \/ \E p \in Procs : InsertFees(p)
    \/ \E p \in Procs : InsertRules(p)
    \/ \E p \in Procs : Commit(p)
    \/ \E p \in Procs : CommitFails(p)
    \/ \E p \in Procs : Rollback(p)

SpecDB == InitDB /\ [][NextDB]_vars


(***************************************************************************)
(* Properties of save_to_database.                                         *)
(***************************************************************************)
ChildrenOf(rows, id) == SelectSeq(rows, LAMBDA row : row.contract_extraction_id = id)

SummariesOf(id) == SelectSeq(store.summaries, LAMBDA row : row.id = id)

Saved == {p \in Procs : pc[p] = "saved"}

ItemCount(p, table) ==
    CASE table = "parties" -> Len(PartiesOf(extraction[p][1]))
      [] table = "fees" -> Len(FeesOf(extraction[p][1]))
      [] table = "rules" -> Len(RulesOf(extraction[p][1]))

RECURSIVE TotalItems(_, _)
TotalItems(ps, table) ==
    IF ps = {} THEN 0
    ELSE LET q == CHOOSE q \in ps : TRUE
         IN ItemCount(q, table) + TotalItems(ps \ {q}, table)

BlobsOf(row) ==
    O([contract_metadata |-> row.contract_metadata_json,
       financial_terms |-> row.financial_terms_json,
       pricing_rules |-> row.pricing_rules_json,
       extraction_metadata |-> row.extraction_metadata_json])

\* C8: after a successful save the four JSON columns of the summary row,
\* read back and reassembled, validate and equal the input extraction.
C8_BlobRoundTrip ==
    \A p \in Procs :
        pc[p] = "saved" =>
            /\ Len(SummariesOf(db_id[p][1])) = 1
            /\ LET row == SummariesOf(db_id[p][1])[1] IN
               /\ Valid(Model("ContractExtraction"), BlobsOf(row))
               /\ Build(Model("ContractExtraction"), BlobsOf(row)) = extraction[p][1]

C8_Witness ==
    \E p \in Procs :
        /\ pc[p] = "saved"
        /\ extraction[p][1] = Build(Model("ContractExtraction"), DocA)
        /\ get_extraction(db_id[p][1]) # <<>>

\* C9: a successful save returns the identity of the one summary row it
\* inserted, and the tables hold exactly one party, fee and pricing-rule row
\* per element of the extraction's lists, in order, each carrying that
\* identity; identities of different saves differ.
C9_OneRowPerElement ==
    \A p \in Procs :
        pc[p] = "saved" =>
            LET id == db_id[p][1]
                x == extraction[p][1]
                parties == ChildrenOf(store.parties, id)
                fees == ChildrenOf(store.fees, id)
                rules == ChildrenOf(store.rules, id)
            IN /\ Len(db_id[p]) = 1
               /\ id = contract_db_id[p]
               /\ Len(SummariesOf(id)) = 1
               /\ \A q \in Procs \ {p} : pc[q] = "saved" => db_id[q] # db_id[p]
               /\ Len(parties) = Len(x.o.contract_metadata.o.parties.a)
               /\ Len(fees) = Len(x.o.financial_terms.o.fees.a)
               /\ Len(rules) = Len(x.o.pricing_rules.o.rules.a)
               /\ \A i \in 1..Len(parties) :
                     parties[i].entity_name
                        = x.o.contract_metadata.o.parties.a[i].o.entity_name.s
               /\ \A i \in 1..Len(fees) :
                     fees[i].fee_type = x.o.financial_terms.o.fees.a[i].o.fee_type.s
               /\ \A i \in 1..Len(rules) :
                     rules[i].rule_name = x.o.pricing_rules.o.rules.a[i].o.rule_name.s
               /\ Len(store.parties) = TotalItems(Saved, "parties")
               /\ Len(store.fees) = TotalItems(Saved, "fees")
               /\ Len(store.rules) = TotalItems(Saved, "rules")

C9_Witness ==
    \E p, q \in Procs :
        /\ p # q
        /\ pc[p] = "saved" /\ pc[q] = "saved"
        /\ Len(ChildrenOf(store.parties, db_id[p][1])) = 2
        /\ Len(ChildrenOf(store.fees, db_id[q][1])) = 2

\* some committed summary row carries the hash of the bytes p submits
HashStored(p) ==
    \E i \in 1..Len(store.summaries) :
        store.summaries[i].file_hash = calculate_file_hash(file_content[p])

\* C20: two calls that persisted the same document bytes both succeeded and
\* left one summary row each, with different ids and the same file_hash; and
\* the summary row of a call that satisfies the column constraints violates
\* no uniqueness constraint, so that its INSERT is not refused, also when
\* its hash is already stored.
C20_HashNeverBlocksPersistence ==
    /\ \A p, q \in Procs :
          (/\ p # q
           /\ pc[p] = "saved" /\ pc[q] = "saved"
           /\ file_content[p] = file_content[q]) =>
              /\ db_id[p][1] # db_id[q][1]
              /\ Len(SummariesOf(db_id[p][1])) = 1
              /\ Len(SummariesOf(db_id[q][1])) = 1
              /\ SummariesOf(db_id[p][1])[1].file_hash
                    = calculate_file_hash(file_content[p])
              /\ SummariesOf(db_id[q][1])[1].file_hash
                    = SummariesOf(db_id[p][1])[1].file_hash
    /\ \A p \in Procs :
          (/\ pc[p] = "save"
           /\ HashStored(p)
           /\ SummaryConstraintsHold(SummaryRow(next_id, extraction[p][1],
                                               filename[p], file_content[p]))) =>
              ~UniqueViolation(SummaryRow(next_id, extraction[p][1], filename[p],
                                          file_content[p]),
                               store.summaries)

\* the same bytes persisted twice
C20_Witness ==
    \E p, q \in Procs :
        /\ p # q
        /\ pc[p] = "saved" /\ pc[q] = "saved"
        /\ file_content[p] = file_content[q]
        /\ extraction[p] = extraction[q]
        /\ Len(store.summaries) = 2
        /\ store.summaries[1].file_hash = store.summaries[2].file_hash
        /\ store.summaries[1].id # store.summaries[2].id

\* a call starts after the same bytes were committed by another
C20_WitnessStored ==
    \E p \in Procs : pc[p] = "save" /\ HashStored(p)

\* C30: in every state the saves reach, committed or failed as they may be,
\* a stored summary row counts in total_fees_count the fee rows that
\* reference it and in total_pricing_rules_count the rule rows that do
C30_CountersMatchChildRows ==
    \A i \in 1..Len(store.summaries) :
        LET row == store.summaries[i] IN
        /\ row.total_fees_count = Len(ChildrenOf(store.fees, row.id))
        /\ row.total_pricing_rules_count = Len(ChildrenOf(store.rules, row.id))

\* a row with two fees and a row with one rule are stored
C30_Witness ==
    /\ \E i \in 1..Len(store.summaries) : store.summaries[i].total_fees_count = 2
    /\ \E i \in 1..Len(store.summaries) :
          store.summaries[i].total_pricing_rules_count = 1
    /\ Len(store.fees) = 3 /\ Len(store.rules) = 1

\* a fee row that references the summary row with this id has the flag
SomeFeeRow(id, flag) ==
    \E i \in 1..Len(store.fees) :
        store.fees[i].contract_extraction_id = id /\ store.fees[i][flag]

\* C31: for every committed record the aggregate flags of the summary row
\* agree with its fee rows: has_commissions with is_commission,
\* has_asset_based_fees with is_asset_based, has_tiered_structures with
\* is_tiered
C31_SummaryFlagsAgreeWithFeeRows ==
    \A i \in 1..Len(store.summaries) :
        LET row == store.summaries[i] IN
        /\ row.has_commissions <=> SomeFeeRow(row.id, "is_commission")
        /\ row.has_asset_based_fees <=> SomeFeeRow(row.id, "is_asset_based")
        /\ row.has_tiered_structures <=> SomeFeeRow(row.id, "is_tiered")

\* the call that committed the summary row with this id
CallsOf(id) == {p \in Procs : db_id[p] = <<id>>}

\* C32: in every state of interleaved saves, each party, fee and rule row
\* that is stored references one stored summary row, the row was committed by
\* the call whose extraction the child row was built from, and the calls that
\* hold an id, committed or not, hold different ids
C32_ChildrenReferenceOwnSummary ==
    /\ \A i \in 1..Len(store.parties) :
          LET row == store.parties[i] IN
          /\ Len(SummariesOf(row.contract_extraction_id)) = 1
          /\ \E p \in CallsOf(row.contract_extraction_id) :
                \E k \in 1..Len(PartiesOf(extraction[p][1])) :
                    PartiesOf(extraction[p][1])[k].o.entity_name.s = row.entity_name
    /\ \A i \in 1..Len(store.fees) :
          LET row == store.fees[i] IN
          /\ Len(SummariesOf(row.contract_extraction_id)) = 1
          /\ \E p \in CallsOf(row.contract_extraction_id) :
                \E k \in 1..Len(FeesOf(extraction[p][1])) :
                    FeesOf(extraction[p][1])[k].o.fee_type.s = row.fee_type
    /\ \A i \in 1..Len(store.rules) :
          LET row == store.rules[i] IN
          /\ Len(SummariesOf(row.contract_extraction_id)) = 1
          /\ \E p \in CallsOf(row.contract_extraction_id) :
                \E k \in 1..Len(RulesOf(extraction[p][1])) :
                    RulesOf(extraction[p][1])[k].o.rule_name.s = row.rule_name
    /\ \A p, q \in Procs :
          (p # q /\ contract_db_id[p] # 0 /\ contract_db_id[q] # 0) =>
              contract_db_id[p] # contract_db_id[q]
    /\ \A i, j \in 1..Len(store.summaries) :
          i # j => store.summaries[i].id # store.summaries[j].id

\* two calls interleaved: the one that took the later id has committed its
\* rows while the one with the earlier id is before its commit
C32_Witness ==
    \E p, q \in Procs :
        /\ db_id[p] # <<>> /\ pc[q] = "save_commit"
        /\ contract_db_id[q] # 0 /\ contract_db_id[q] < db_id[p][1]
        /\ ChildrenOf(store.parties, db_id[p][1]) # <<>>
        /\ tx[q].fees # <<>>

\* save_to_database is running: its session was made and not yet left
InSave(p) ==
    pc[p] \in {"save_parties", "save_fees", "save_rules", "save_commit", "save_except"}

\* positions of an event in the log of a session
EventsAt(p, event) == {i \in 1..Len(session[p]) : session[p][i] = event}

\* C34: the session that save_to_database opened is closed whenever the call
\* has returned or raised: it is closed once, as the last thing done with it,
\* after the commit on the path that returns and after a rollback on every
\* path that raises; while the call runs the session is open
C34_SessionClosedOnEveryPath ==
    \A p \in Procs :
        /\ pc[p] = "save" => session[p] = <<>>
        /\ InSave(p) => session[p] = <<"SessionLocal">>
        /\ (session[p] # <<>> /\ ~InSave(p)) =>
               /\ EventsAt(p, "close") = {Len(session[p])}
               /\ session[p][1] = "SessionLocal"
               /\ db_id[p] # <<>> =>
                      /\ EventsAt(p, "commit") = {Len(session[p]) - 1}
                      /\ EventsAt(p, "rollback") = {}
               /\ db_id[p] = <<>> =>
                      /\ EventsAt(p, "commit") = {}
                      /\ EventsAt(p, "rollback") # {}
                      /\ \A i \in EventsAt(p, "rollback") : i < Len(session[p])
                      /\ error[p] # <<>>

\* one call returned after its commit, another raised after a failure that
\* came after its summary row was written; both sessions are closed
C34_Witness ==
    \E p, q \in Procs :
        /\ pc[p] = "saved" /\ session[p] = <<"SessionLocal", "commit", "close">>
        /\ pc[q] = "save_raised" /\ contract_db_id[q] # 0
        /\ session[q] = <<"SessionLocal", "rollback", "rollback", "close">>

(***************************************************************************)
(* Specification of concurrent calls of extract_from_file on the one       *)
(* module-level extractor (line 541), against one completion service.      *)
(***************************************************************************)
\* the arguments of the concurrent calls: a name that is refused, and a PDF
\* name with a negative limit, with one attempt and with two
ConcurrentInputs ==
    << [filename |-> <<"c", "o", "n", "t", "r", "a", "c", "t", ".", "d", "o", "c", "x">>,
        max_retries |-> 1],
       [filename |-> <<"c", "o", "n", "t", "r", "a", "c", "t", ".", "p", "d", "f">>,
        max_retries |-> -1],
       [filename |-> <<"c", "o", "n", "t", "r", "a", "c", "t", ".", "p", "d", "f">>,
        max_retries |-> 1],
       [filename |-> <<"c", "o", "n", "t", "r", "a", "c", "t", ".", "p", "d", "f">>,
        max_retries |-> 2] >>

\* a service that raises, answers with a document that fails validation, or
\* answers with a valid document
StubResponses ==
    {r \in ServiceResponses :
        \/ r.msg = "rate limit exceeded"
        \/ r.content # 0 /\ Contents[r.content].json \in {DocA, DocRootExtra}}

\* The calls run the same code: their arguments are given in the order of
\* ConcurrentInputs, every other assignment being one of these with the calls
\* renamed.
InitConcurrent(procs) ==
    /\ pc = [p \in procs |-> "extract"]
    /\ \E input \in {i \in [procs -> 1..Len(ConcurrentInputs)] :
                          \A p, q \in procs : p <= q => i[p] <= i[q]} :
          /\ filename = [p \in procs |-> ConcurrentInputs[input[p]].filename]
          /\ max_retries = [p \in procs |-> ConcurrentInputs[input[p]].max_retries]
    /\ attempt = [p \in procs |-> 0]
    /\ file_id = [p \in procs |-> 0]
    /\ calls = [p \in procs |-> <<>>]
    /\ responses = [p \in procs |-> <<>>]
    /\ last_failure = [p \in procs |-> <<>>]
    /\ extraction = [p \in procs |-> <<>>]
    /\ error = [p \in procs |-> <<>>]
    /\ remote_files = {}
    /\ next_file_id = 1
    /\ prompt_files = PromptPaths
    /\ completions = StubResponses
    /\ set_order = FirstAdded
    /\ fn_name = "none" /\ fn_arg = None /\ fn_result = <<>>
    /\ InitDbIdle(procs)

InitConc == InitConcurrent(1..NumSavers)

NextConc ==
    \/ \E p \in Procs : LoadPrompts(p)
    \/ \E p \in Procs : RejectExtension(p)
    \/ \E p \in Procs : Upload(p)
    \/ \E p \in Procs : AttemptSucceeds(p)
    \/ \E p \in Procs : AttemptFails(p)
    \/ \E p \in Procs : LastAttemptFails(p)
    \/ \E p \in Procs : LoopExhausted(p)

SpecConc == InitConc /\ [][NextConc]_vars

\* the variables of the calls other than p are left as they are
OthersUntouched(p) ==
    \A q \in Procs \ {p} :
        /\ pc'[q] = pc[q]
        /\ max_retries'[q] = max_retries[q]
        /\ attempt'[q] = attempt[q]
        /\ file_id'[q] = file_id[q]
        /\ calls'[q] = calls[q]
        /\ responses'[q] = responses[q]
        /\ last_failure'[q] = last_failure[q]
        /\ extraction'[q] = extraction[q]
        /\ error'[q] = error[q]

\* the only files added to or removed from the service are those of p
OwnHandleOnly(p) ==
    /\ remote_files' \ remote_files \subseteq {file_id'[p]} \ {0}
    /\ remote_files \ remote_files' \subseteq {file_id[p]} \ {0}

\* what a call has done is what its own responses make it do
OwnOutcome(p) ==
    /\ CountCalls(p, "chat.completions.create") = Len(responses[p])
    /\ max_retries[p] >= 1 => Len(responses[p]) <= max_retries[p]
    /\ pc[p] = "loop" => attempt[p] = Len(responses[p])
    /\ pc[p] = "returned" =>
          /\ ~Failed(responses[p][Len(responses[p])])
          /\ extraction[p] = <<Build(Model("ContractExtraction"),
                  Contents[responses[p][Len(responses[p])].content].json)>>
    /\ (pc[p] = "raised" /\ file_id[p] # 0 /\ max_retries[p] >= 1) =>
          /\ Len(responses[p]) = max_retries[p]
          /\ \A i \in 1..Len(responses[p]) : Failed(responses[p][i])
          /\ error[p] = <<TerminalError(AttemptException(
                              responses[p][Len(responses[p])])[1], max_retries[p])>>

\* C24: when calls of extract_from_file run concurrently, every step is the
\* step of one call that leaves the attempt counter, the calls, the responses
\* and the outcome of the others as they are and adds or deletes no file but
\* its own; the uploaded files of different calls differ; and each call
\* issues at most its own max_retries completion calls and ends as its own
\* responses make it end.
C24_RetriesAreLocal ==
    /\ [](\A p \in Procs : OwnOutcome(p))
    /\ [](\A p, q \in Procs : (p # q /\ file_id[p] # 0) => file_id[p] # file_id[q])
    /\ [][\E p \in Procs : OthersUntouched(p) /\ OwnHandleOnly(p)]_vars

\* one call failed twice and raised, with its file deleted, while another
\* returned from its first attempt
C24_Witness ==
    \E p, q \in Procs :
        /\ p # q
        /\ pc[p] = "raised" /\ Len(responses[p]) = 2
        /\ pc[q] = "returned" /\ Len(responses[q]) = 1
        /\ file_id[p] \notin remote_files
        /\ file_id[q] \in remote_files

(***************************************************************************)
(* create_openai_response_format (models/pricing.py, lines 188-217).       *)
(***************************************************************************)
\* the elements of a set as a list; the order of the list is left open
RECURSIVE SeqOfSet(_)
SeqOfSet(set) ==
    IF set = {} THEN <<>>
    ELSE LET x == CHOOSE x \in set : TRUE IN <<x>> \o SeqOfSet(set \ {x})

DefsRef(name) == O("$ref" :> S("#/$defs/" \o name))

\* The JSON schema pydantic generates for a field: a model or an Enum class
\* is referred to by its place in "$defs".  The "title" of a field, a string,
\* is left out.
field_schema(ty) ==
    CASE ty.k = "str" -> O([type |-> S("string")])
      [] ty.k = "int" -> O([type |-> S("integer")])
      [] ty.k = "float" -> O([type |-> S("number")])
      [] ty.k = "bool" -> O([type |-> S("boolean")])
      [] ty.k = "union" ->
            O([anyOf |-> A(<<O([type |-> S("string")]), O([type |-> S("number")]),
                             O([type |-> S("integer")])>>)])
      [] ty.k = "list" ->
            O([type |-> S("array"),
               items |-> IF ty.of = "str" THEN O([type |-> S("string")])
                         ELSE DefsRef(ty.of)])
      [] ty.k = "model" -> DefsRef(ty.of)
      [] ty.k = "enum" -> DefsRef(ty.of)

\* the schema of a model class: every field is required, none has a default;
\* Config.extra = "forbid" gives "additionalProperties": false
model_schema(name) ==
    LET node == [type |-> S("object"),
                 title |-> S(name),
                 properties |-> O([f \in Fields(name) |-> field_schema(Schema[name][f])]),
                 required |-> A([i \in 1..Cardinality(Fields(name)) |->
                                    S(SeqOfSet(Fields(name))[i])])]
    IN IF ExtraPolicy(name) = "forbid"
       THEN O(node @@ [additionalProperties |-> B(FALSE)])
       ELSE O(node)

\* the schema of an Enum class whose members are strings
enum_schema(name) ==
    O([type |-> S("string"),
       title |-> S(name),
       enum |-> A([i \in 1..Cardinality(EnumValues(name)) |->
                      S(SeqOfSet(EnumValues(name))[i])])])

EnumNames == {"PaymentType", "FrequencyType", "FeeType"}

\* ContractExtraction.model_json_schema(): the class itself at the root, every
\* class it refers to, directly or not, under "$defs"
get_json_schema ==
    LET nested == DOMAIN Schema \ {"ContractExtraction"}
        defs == [n \in nested \cup EnumNames |->
                    IF n \in EnumNames THEN enum_schema(n) ELSE model_schema(n)]
    IN O(model_schema("ContractExtraction").o @@ ("$defs" :> O(defs)))

\* obj.get("type") == "object"
IsObjectTyped(obj) ==
    /\ obj.t = "o"
    /\ "type" \in DOMAIN obj.o
    /\ obj.o["type"].t = "s"
    /\ obj.o["type"].s = "object"

\* a setting of additionalProperties at the root alone
add_additional_properties_false_at_root(obj) ==
    IF IsObjectTyped(obj)
    THEN O([additionalProperties |-> B(FALSE)] @@ obj.o)
    ELSE obj

\* lines 198-206: a dict whose "type" is "object" gets additionalProperties
\* False, and the values of every dict and the items of every list are
\* visited in turn
RECURSIVE add_additional_properties_false(_)
add_additional_properties_false(obj) ==
    CASE obj.t = "o" ->
           LET d == IF IsObjectTyped(obj)
                    THEN [additionalProperties |-> B(FALSE)] @@ obj.o
                    ELSE obj.o
           IN O([k \in DOMAIN d |-> add_additional_properties_false(d[k])])
      [] obj.t = "a" ->
           A([i \in 1..Len(obj.a) |-> add_additional_properties_false(obj.a[i])])
      [] OTHER -> obj

\* lines 193-217
create_openai_response_format ==
    O([type |-> S("json_schema"),
       json_schema |->
           O([name |-> S("contract_extraction"),
              schema |-> add_additional_properties_false(get_json_schema),
              strict |-> B(TRUE)])])

(***************************************************************************)
(* Calls of the helper functions of extractor.py on their own: the         *)
(* argument is drawn from a bounded set of Python values and the function  *)
(* is called on it MaxCalls times in the same interpreter.                 *)
(***************************************************************************)
\* longest fee list, longest base_compensation list, calls per argument
MaxFees == 2
MaxComps == 1
MaxCalls == 2

SeqsUpTo(set, n) == UNION {[1..k -> set] : k \in 0..n}

Amount(cur) == O([currency |-> cur])

FeeDict(type, calc, amount) ==
    O([fee_type |-> type, calculation_method |-> S(calc), amount |-> amount])

\* fee dicts: a dump of FeeTerm (fee_type an Enum member), dicts with
\* free-text types, and dicts with a key missing or None
FeeInputs ==
    { FeeDict(E("FeeType", "tiered_fee"), "flat", Amount(S("USD"))),
      FeeDict(S("Asset-Based Commission"), "flat", Amount(S("EUR"))),
      FeeDict(S("flat"), "2% of assets", Amount(S("USD"))),
      FeeDict(S("flat"), "per TIER", Amount(S("EUR"))),
      FeeDict(S("Tier 1 pricing"), "flat", Amount(S(""))),
      FeeDict(S("5% markup"), "flat", O([value |-> N(5)])),
      O([calculation_method |-> S("flat")]),
      FeeDict(None, "per tier", Amount(S("USD"))),
      O([fee_type |-> S("commission"), calculation_method |-> None,
         amount |-> Amount(S("USD"))]),
      FeeDict(S("asset_based_fee"), "flat", None) }

CompInputs ==
    { O([amount |-> Amount(S("EUR"))]),
      O([amount |-> Amount(None)]),
      O([description |-> S("retainer")]),
      O([amount |-> None]) }

Terms(fees, comps) == O([fees |-> A(fees), base_compensation |-> A(comps)])

\* fee lists without base compensation, base compensation lists with at most
\* one fee, a dict without either key and a dict whose fees are None
FinancialInputs ==
    {Terms(fs, <<>>) : fs \in SeqsUpTo(FeeInputs, MaxFees)}
    \cup {Terms(fs, cs) : fs \in SeqsUpTo(FeeInputs, 1),
                          cs \in SeqsUpTo(CompInputs, MaxComps)}
    \cup {EmptyDict, O([fees |-> None])}

\* longest entity name
MaxNameLen == 3

\* entity names: the names of the documents and every short string over a
\* capital, a small letter, a blank, a comma and a period
NameInputs ==
    {Chars("Acme, Inc."), Chars("Bolt LLC"), Chars("Cobalt Ltd.")}
    \cup SeqsUpTo({"A", "b", " ", ",", "."}, MaxNameLen)

\* fee.model_dump() of a validated fee
FeeDump(j) == model_dump("FeeTerm", Build(Model("FeeTerm"), j))

\* fees as save_to_database sees them
FeeDumps ==
    { FeeDump(Fee("commission", "2% of assets", "USD")),
      FeeDump(Fee("tiered_fee", "per tier", "EUR")),
      FeeDump(Fee("service_fee", "flat", "USD")),
      FeeDump(WithField(Fee("asset_based_fee", "per TIER", "USD"),
                        "minimum_amount", Money(N(10), "USD", FALSE))),
      FeeDump(WithField(WithField(Fee("management_fee", "flat", "EUR"),
                                  "maximum_amount", Money(S(""), "EUR", FALSE)),
                        "amount", Money(S("[REDACTED]"), "EUR", TRUE))) }

\* effective_date / end_date strings: a year, a month and a day, each written
\* in several ways, joined by one separator, and some free-text dates
DateInputs ==
    {y \o <<sep>> \o m \o <<sep>> \o d :
        y \in {Chars("2024"), Chars("2023"), Chars("0000")},
        m \in {Chars("01"), Chars("1"), Chars("02"), Chars("2"), Chars("12"),
               Chars("13"), Chars("00")},
        d \in {Chars("01"), Chars("1"), Chars(" 1"), Chars("29"), Chars("30"),
               Chars("31"), Chars("32")},
        sep \in {"-", "/", "."}}
    \cup {<<>>,
          <<"2", "0", "2", "4", "-", "0", "1", "-", "0", "1", "T", "0", "0", ":", "0", "0", ":", "0", "0">>,
          <<"J", "a", "n", "u", "a", "r", "y", " ", "1", ",", " ", "2", "0", "2", "4">>,
          <<"0", "1", "/", "0", "2", "/", "2", "0", "2", "4">>,
          <<"2", "0", "2", "4", "0", "1", "0", "1">>,
          <<" ", "2", "0", "2", "4", "-", "0", "1", "-", "0", "1">>,
          <<"2", "0", "2", "4", "-", "0", "1", "-", "0", "1", " ">>,
          <<"N", "/", "A">>,
          <<"2", "0", "2", "4", "-", "1", "/", "5">>,
          <<"2", "4", "-", "0", "1", "-", "0", "1">>,
          <<"2", "0", "2", "4", "-", "0", "1", "-", "3", "1", "1">>}

InitOrchIdle(procs) ==
    /\ filename = [p \in procs |-> <<>>]
    /\ max_retries = [p \in procs |-> DefaultMaxRetries]
    /\ attempt = [p \in procs |-> 0]
    /\ file_id = [p \in procs |-> 0]
    /\ calls = [p \in procs |-> <<>>]
    /\ responses = [p \in procs |-> <<>>]
    /\ last_failure = [p \in procs |-> <<>>]
    /\ extraction = [p \in procs |-> <<>>]
    /\ error = [p \in procs |-> <<>>]
    /\ remote_files = {}
    /\ next_file_id = 1
    /\ prompt_files = PromptPaths
    /\ completions = ServiceResponses

InitFn ==
    /\ pc = [p \in {1} |-> "call"]
    /\ InitOrchIdle({1})
    /\ InitDbIdle({1})
    /\ fn_result = <<>>
    /\ \/ /\ fn_name = "analyze_financial_characteristics"
          /\ fn_arg \in FinancialInputs
          /\ set_order \in SetOrders
       \/ /\ fn_name = "save_fee_details"
          /\ fn_arg \in SeqsUpTo(FeeDumps, MaxFees)
          /\ set_order \in SetOrders
       \/ /\ fn_name = "safe_date_parse"
          /\ fn_arg \in DateInputs
          /\ set_order = FirstAdded
       \/ /\ fn_name = "normalize_name"
          /\ fn_arg \in NameInputs
          /\ set_order = FirstAdded
       \/ /\ fn_name = "create_openai_response_format"
          /\ fn_arg = None
          /\ set_order = FirstAdded

\* characteristics = analyze_financial_characteristics(financial_terms)
CallAnalyze ==
    /\ fn_name = "analyze_financial_characteristics"
    /\ Len(fn_result) < MaxCalls
    /\ fn_result' = Append(fn_result, analyze_financial_characteristics(fn_arg))
    /\ UNCHANGED <<pc, extraction, error, orch_vars, db_vars, prompt_files,
                   completions, set_order, fn_name, fn_arg, request, response,
                   output_dir, temp_dirs, batch>>

\* normalized_name=normalize_name(party.get('entity_name', ''))
CallNormalizeName ==
    /\ fn_name = "normalize_name"
    /\ Len(fn_result) < MaxCalls
    /\ fn_result' = Append(fn_result, Returns(normalize_name(fn_arg)))
    /\ UNCHANGED <<pc, extraction, error, orch_vars, db_vars, prompt_files,
                   completions, set_order, fn_name, fn_arg, request, response,
                   output_dir, temp_dirs, batch>>

\* the loop of lines 492-514 over the fees of an extraction
SaveFeeDetails ==
    /\ fn_name = "save_fee_details"
    /\ Len(fn_result) < MaxCalls
    /\ fn_result' = Append(fn_result, Returns(FeeRows(1, fn_arg)))
    /\ UNCHANGED <<pc, extraction, error, orch_vars, db_vars, prompt_files,
                   completions, set_order, fn_name, fn_arg, request, response,
                   output_dir, temp_dirs, batch>>

\* effective_date = safe_date_parse(metadata.get('effective_date'))
CallSafeDateParse ==
    /\ fn_name = "safe_date_parse"
    /\ Len(fn_result) < MaxCalls
    /\ fn_result' = Append(fn_result, Returns(safe_date_parse(fn_arg)))
    /\ UNCHANGED <<pc, extraction, error, orch_vars, db_vars, prompt_files,
                   completions, set_order, fn_name, fn_arg, request, response,
                   output_dir, temp_dirs, batch>>

\* response_format = create_openai_response_format() (extractor.py, line 318)
CallCreateResponseFormat ==
    /\ fn_name = "create_openai_response_format"
    /\ Len(fn_result) < MaxCalls
    /\ fn_result' = Append(fn_result, Returns(create_openai_response_format))
    /\ UNCHANGED <<pc, extraction, error, orch_vars, db_vars, prompt_files,
                   completions, set_order, fn_name, fn_arg, request, response,
                   output_dir, temp_dirs, batch>>

NextFn ==
    \/ CallAnalyze
    \/ CallSafeDateParse
    \/ SaveFeeDetails
    \/ CallNormalizeName
    \/ CallCreateResponseFormat

SpecFn == InitFn /\ [][NextFn]_vars

(***************************************************************************)
(* Properties of analyze_financial_characteristics.                        *)
(***************************************************************************)
Analyzed ==
    /\ fn_name = "analyze_financial_characteristics"
    /\ fn_result # <<>>

Perms(n) == {f \in [1..n -> 1..n] : \A i, j \in 1..n : f[i] = f[j] => i = j}

Permuted(items, f) == [i \in 1..Len(items) |-> items[f[i]]]

\* the financial terms with the list under key reordered in every way
Reorderings(financial_terms, key) ==
    IF key \in DOMAIN financial_terms.o /\ financial_terms.o[key].t = "a"
    THEN {O([financial_terms.o EXCEPT ![key] = A(Permuted(@.a, f))]) :
             f \in Perms(Len(financial_terms.o[key].a))}
    ELSE {financial_terms}

AllReorderings(financial_terms) ==
    UNION {Reorderings(ft, "base_compensation") :
              ft \in Reorderings(financial_terms, "fees")}

Booleans(characteristics) ==
    <<characteristics.has_tiered_structures, characteristics.has_commissions,
      characteristics.has_asset_based_fees, characteristics.multi_currency_flag>>

FeesAnalyzed == dict_get(fn_arg, "fees", A(<<>>)).a

\* fee.get(key, '').lower() of a fee the analysis did not raise on
LowerText(fee, key) == lower(Chars(dict_get(fee, key, S("")).s))

\* "tier" or "%" in either text of a fee
IsTieredAnyText(fee_type, calculation) ==
    \/ contains(fee_type, Chars("tier")) \/ contains(fee_type, Chars("%"))
    \/ contains(calculation, Chars("tier")) \/ contains(calculation, Chars("%"))

\* C13: when the analysis returns, has_tiered_structures is true exactly when
\* the lower-cased fee_type or calculation_method of some fee contains
\* "tier" or "%".
C13_TieredIffTierOrPercent ==
    (Analyzed /\ ~fn_result[1].raised) =>
        (fn_result[1].value.has_tiered_structures
            <=> \E i \in 1..Len(FeesAnalyzed) :
                   IsTieredAnyText(LowerText(FeesAnalyzed[i], "fee_type"),
                                   LowerText(FeesAnalyzed[i], "calculation_method")))

\* the fee types of the analysed fees are exactly these two, in this order
FeeTypesAre(first, second) ==
    /\ Len(FeesAnalyzed) = 2
    /\ dict_get(FeesAnalyzed[1], "fee_type", S("")) = S(first)
    /\ dict_get(FeesAnalyzed[2], "fee_type", S("")) = S(second)

\* C14: when the analysis returns, has_commissions is true exactly when the
\* lower-cased fee_type of some fee contains "commission", and
\* has_asset_based_fees exactly when the lower-cased fee_type or
\* calculation_method of some fee contains "asset"; fees of types
\* "Asset-Based Commission" and "flat" give both flags true.
C14_CommissionAndAssetFlags ==
    (Analyzed /\ ~fn_result[1].raised) =>
        /\ fn_result[1].value.has_commissions
              <=> \E i \in 1..Len(FeesAnalyzed) :
                     contains(LowerText(FeesAnalyzed[i], "fee_type"),
                              <<"c", "o", "m", "m", "i", "s", "s", "i", "o", "n">>)
        /\ fn_result[1].value.has_asset_based_fees
              <=> \E i \in 1..Len(FeesAnalyzed) :
                     \/ contains(LowerText(FeesAnalyzed[i], "fee_type"),
                                 <<"a", "s", "s", "e", "t">>)
                     \/ contains(LowerText(FeesAnalyzed[i], "calculation_method"),
                                 <<"a", "s", "s", "e", "t">>)
        /\ FeeTypesAre("Asset-Based Commission", "flat") =>
              /\ fn_result[1].value.has_commissions
              /\ fn_result[1].value.has_asset_based_fees

\* the example of the claim, with a second fee that names no asset
C14_Witness ==
    /\ Analyzed
    /\ ~fn_result[1].raised
    /\ FeeTypesAre("Asset-Based Commission", "flat")
    /\ dict_get(FeesAnalyzed[2], "calculation_method", S("")) = S("per TIER")
    /\ fn_result[1].value.has_commissions
    /\ fn_result[1].value.has_asset_based_fees

\* the base_compensation dicts of the analysed financial terms
CompsAnalyzed == dict_get(fn_arg, "base_compensation", A(<<>>)).a

\* the non-empty currency of the amount of a fee or base compensation the
\* analysis did not raise on, as a set with at most one member
CurrencyOf(item) ==
    LET currency == dict_get(dict_get(item, "amount", EmptyDict), "currency", None)
    IN IF currency.t = "s" /\ currency.s # "" THEN {currency.s} ELSE {}

CurrencySet ==
    UNION ({CurrencyOf(FeesAnalyzed[i]) : i \in 1..Len(FeesAnalyzed)}
           \cup {CurrencyOf(CompsAnalyzed[i]) : i \in 1..Len(CompsAnalyzed)})

\* C15: when the analysis returns, multi_currency_flag is true exactly when
\* the non-empty currencies of the fee amounts and base_compensation amounts
\* are more than one, and primary_currency is one of them, or None exactly
\* when there is none.
C15_CurrencyFlags ==
    (Analyzed /\ ~fn_result[1].raised) =>
        /\ fn_result[1].value.multi_currency_flag <=> Cardinality(CurrencySet) > 1
        /\ fn_result[1].value.primary_currency = None <=> CurrencySet = {}
        /\ CurrencySet # {} =>
              /\ fn_result[1].value.primary_currency.t = "s"
              /\ fn_result[1].value.primary_currency.s \in CurrencySet

\* one currency from a fee and another from a base compensation
C15_Witness ==
    /\ Analyzed
    /\ ~fn_result[1].raised
    /\ Len(FeesAnalyzed) = 1 /\ Len(CompsAnalyzed) = 1
    /\ CurrencyOf(FeesAnalyzed[1]) = {"USD"}
    /\ CurrencyOf(CompsAnalyzed[1]) = {"EUR"}
    /\ fn_result[1].value.multi_currency_flag
    /\ fn_result[1].value.primary_currency = S("EUR")

\* a single currency named twice
C15_WitnessSingle ==
    /\ Analyzed
    /\ ~fn_result[1].raised
    /\ Len(FeesAnalyzed) = 2
    /\ CurrencyOf(FeesAnalyzed[1]) = {"USD"}
    /\ CurrencyOf(FeesAnalyzed[2]) = {"USD"}
    /\ ~fn_result[1].value.multi_currency_flag

\* C16: the analysis returns a result for every financial-terms input whose
\* fees and base_compensation are lists of dicts, also when the fee_type,
\* calculation_method, amount or currency of one of them is missing or None.
C16_AnalysisIsTotal ==
    (/\ Analyzed
     /\ dict_get(fn_arg, "fees", A(<<>>)).t = "a"
     /\ dict_get(fn_arg, "base_compensation", A(<<>>)).t = "a")
        => \A i \in 1..Len(fn_result) : ~fn_result[i].raised

(***************************************************************************)
(* Properties of normalize_name.                                           *)
(***************************************************************************)
Normalized == fn_name = "normalize_name" /\ fn_result # <<>>

\* C17: the normalized name is lowercase, has no comma and no period, and
\* neither starts nor ends with whitespace.
C17_NormalizedNameIsCleanAndTrimmed ==
    Normalized =>
        LET normalized == fn_result[1].value IN
        /\ \A i \in 1..Len(normalized) :
              /\ \A k \in 1..Len(UpperCase) : normalized[i] # UpperCase[k]
              /\ normalized[i] \notin {",", "."}
        /\ normalized # <<>> =>
              /\ normalized[1] \notin Whitespace
              /\ normalized[Len(normalized)] \notin Whitespace

(***************************************************************************)
(* Properties of the fee rows.                                             *)
(***************************************************************************)
FeesSaved == fn_name = "save_fee_details" /\ fn_result # <<>>

FlagsOf(row) ==
    <<row.is_tiered, row.is_asset_based, row.is_commission, row.has_minimum,
      row.has_maximum, row.is_redacted>>

\* C18: the six flags of a fee row are those of the row the fee gets when it
\* is the only fee of the extraction, and stay the same when another fee of
\* the list is replaced, when a fee is added before or after, and when a
\* fee is removed.
C18_FeeFlagsOfOwnFieldsOnly ==
    FeesSaved =>
        LET rows == fn_result[1].value IN
        \A i \in 1..Len(fn_arg) :
            /\ FlagsOf(rows[i]) = FlagsOf(FeeRows(1, <<fn_arg[i]>>)[1])
            /\ \A other \in FeeDumps :
                  /\ FlagsOf(FeeRows(1, Append(fn_arg, other))[i]) = FlagsOf(rows[i])
                  /\ FlagsOf(FeeRows(1, <<other>> \o fn_arg)[i + 1]) = FlagsOf(rows[i])
                  /\ \A j \in 1..Len(fn_arg) :
                        j # i =>
                          FlagsOf(FeeRows(1, [fn_arg EXCEPT ![j] = other])[i])
                              = FlagsOf(rows[i])
            /\ \A j \in 1..Len(fn_arg) :
                  j > i =>
                    FlagsOf(FeeRows(1, SubSeq(fn_arg, 1, j - 1)
                                         \o SubSeq(fn_arg, j + 1, Len(fn_arg)))[i])
                        = FlagsOf(rows[i])

\* two fees whose rows differ in is_commission, neither row tiered although
\* the characteristics of the extraction say has_tiered_structures
C18_Witness ==
    /\ FeesSaved
    /\ Len(fn_arg) = 2
    /\ fn_result[1].value[1].is_commission
    /\ ~fn_result[1].value[2].is_commission
    /\ ~fn_result[1].value[1].is_tiered
    /\ ~fn_result[1].value[2].is_tiered
    /\ analyze_financial_characteristics(Terms(fn_arg, <<>>)).value.has_tiered_structures

(***************************************************************************)
(* Properties of safe_date_parse.                                          *)
(***************************************************************************)
DateParsed == fn_name = "safe_date_parse" /\ fn_result # <<>>

DigitChar(n) == Digits[n + 1]

TwoDigits(n) == <<DigitChar(n \div 10), DigitChar(n % 10)>>

FourDigits(n) == TwoDigits(n \div 100) \o TwoDigits(n % 100)

CalendarDates(year) ==
    IF year < 1
    THEN {}
    ELSE UNION {{Date(year, month, day) : day \in 1..DaysInMonth(year, month)} :
                   month \in 1..12}

\* the year the first four characters spell, -1 when they are not four digits
YearSpelled(str) ==
    IF Len(str) >= 4 /\ \A i \in 1..4 : IsDigit(str[i])
    THEN IntOf(str, 1, 4)
    ELSE -1

\* the date whose YYYY<sep>MM<sep>DD spelling str is, in a set
StrictDate(str, sep) ==
    {date \in CalendarDates(YearSpelled(str)) :
        str = FourDigits(date.year) \o <<sep>> \o TwoDigits(date.month)
                  \o <<sep>> \o TwoDigits(date.day)}

\* the spellings of a month or day number that strptime reads: two digits,
\* one digit for a number below ten and, for a day only, a blank and a digit
Spellings(n, isDay) ==
    {TwoDigits(n)}
        \cup (IF n < 10 THEN {<<DigitChar(n)>>} ELSE {})
        \cup (IF n < 10 /\ isDay THEN {<<" ", DigitChar(n)>>} ELSE {})

LenientDate(str, sep) ==
    {date \in CalendarDates(YearSpelled(str)) :
        \E m \in Spellings(date.month, FALSE), d \in Spellings(date.day, TRUE) :
            str = FourDigits(date.year) \o <<sep>> \o m \o <<sep>> \o d}

TheDate(dates) == CHOOSE date \in dates : TRUE

\* C19 as stated: safe_date_parse returns the date when the string is a date
\* spelled YYYY-MM-DD, otherwise the date when it is one spelled YYYY/MM/DD,
\* otherwise None, and never raises.
C19_TwoFormatsElseNull ==
    DateParsed =>
        /\ ~fn_result[1].raised
        /\ fn_result[1].value =
              IF StrictDate(fn_arg, "-") # {} THEN TheDate(StrictDate(fn_arg, "-"))
              ELSE IF StrictDate(fn_arg, "/") # {} THEN TheDate(StrictDate(fn_arg, "/"))
              ELSE None

\* C19 amended: safe_date_parse never raises; it returns the date when the
\* string spells a calendar date as a four-digit year, a month and a day
\* joined by "-", otherwise when it spells one joined by "/", where the month
\* and day may be written with two digits or, below ten, with one digit (the
\* day also with a blank and one digit); otherwise it returns None.
C19_TwoLenientFormatsElseNull ==
    DateParsed =>
        /\ ~fn_result[1].raised
        /\ fn_result[1].value =
              IF LenientDate(fn_arg, "-") # {} THEN TheDate(LenientDate(fn_arg, "-"))
              ELSE IF LenientDate(fn_arg, "/") # {} THEN TheDate(LenientDate(fn_arg, "/"))
              ELSE None

\* a date read in the second format
C19_Witness ==
    /\ DateParsed
    /\ fn_arg = Chars("2024") \o <<"/">> \o Chars("02") \o <<"/">> \o Chars("29")
    /\ fn_result[1].value = Date(2024, 2, 29)

\* a string that is no date in either format
C19_WitnessNull ==
    /\ DateParsed
    /\ fn_arg = Chars("2023") \o <<"-">> \o Chars("02") \o <<"-">> \o Chars("29")
    /\ fn_result[1].value = None

ResponseFormatMade == fn_name = "create_openai_response_format" /\ fn_result # <<>>

\* the schema j has additionalProperties false
Closed(j) ==
    /\ "additionalProperties" \in DOMAIN j.o
    /\ j.o["additionalProperties"] = B(FALSE)

\* every dict below j, j included, that is a schema of type "object" has
\* additionalProperties false
RECURSIVE AllObjectsClosed(_)
AllObjectsClosed(j) ==
    CASE j.t = "o" ->
           /\ IsObjectTyped(j) => Closed(j)
           /\ \A k \in DOMAIN j.o : AllObjectsClosed(j.o[k])
      [] j.t = "a" -> \A i \in 1..Len(j.a) : AllObjectsClosed(j.a[i])
      [] OTHER -> TRUE

\* the schema of the model class name inside the schema j of the root class
ClassNode(j, name) ==
    IF name = "ContractExtraction" THEN j ELSE j.o["$defs"].o[name]

\* C26: the response format is strict: the root schema requires its four
\* properties, the schema of every model class, the classes met inside lists
\* and under the shared definitions included, is an object with
\* additionalProperties false, and so is every object-typed node at any depth
C26_ResponseFormatIsStrict ==
    ResponseFormatMade =>
        \A i \in 1..Len(fn_result) :
            LET format == fn_result[i].value
                schema == format.o.json_schema.o.schema
            IN /\ format.o.type = S("json_schema")
               /\ format.o.json_schema.o.strict = B(TRUE)
               /\ {schema.o.required.a[k] : k \in 1..Len(schema.o.required.a)} =
                     {S("contract_metadata"), S("financial_terms"),
                      S("pricing_rules"), S("extraction_metadata")}
               /\ Len(schema.o.required.a) = 4
               /\ DOMAIN schema.o.properties.o =
                     {"contract_metadata", "financial_terms", "pricing_rules",
                      "extraction_metadata"}
               /\ \A name \in DOMAIN Schema :
                     /\ IsObjectTyped(ClassNode(schema, name))
                     /\ Closed(ClassNode(schema, name))
               /\ AllObjectsClosed(schema)

\* the format was made, and the class of the items of the list of fees, met
\* under the shared definitions, is closed
C26_Witness ==
    /\ ResponseFormatMade
    /\ LET schema == fn_result[1].value.o.json_schema.o.schema IN
          /\ schema.o["$defs"].o.FinancialTerms.o.properties.o.fees.o.items =
                DefsRef("FeeTerm")
          /\ Closed(schema.o["$defs"].o.FeeTerm)

(***************************************************************************)
(* The HTTP handlers (lines 544-574 and 663-701).  uvicorn.run(app) serves *)
(* the requests in one event loop, and the body of a handler has no await  *)
(* after file.read(): the handlers run one at a time, in the order of      *)
(* their numbers.                                                          *)
(***************************************************************************)
\* number of requests
NumRequests == 2

\* str(db_id)
RECURSIVE IntStr(_)
IntStr(n) == IF n < 10 THEN <<DigitChar(n)>> ELSE IntStr(n \div 10) \o <<DigitChar(n % 10)>>

\* str.rfind(c): the last position of c in str, 0 when there is none
rfind(str, c) ==
    LET at == {i \in 1..Len(str) : str[i] = c} IN
    IF at = {} THEN 0 ELSE CHOOSE i \in at : \A j \in at : j <= i

\* Path(filename).stem: the final component without its last suffix
PathStem(name) ==
    LET final == SubSeq(name, rfind(name, "/") + 1, Len(name))
        dot == rfind(final, ".")
    IN IF dot > 1 /\ dot < Len(final) THEN SubSeq(final, 1, dot - 1) ELSE final

\* f"{db_id}_{filename_stem}_extraction.json" (lines 560-562)
OutputFilenameOfStem(id, name) ==
    PathStem(name) \o <<"_", "e", "x", "t", "r", "a", "c", "t", "i", "o", "n", ".", "j", "s", "o", "n">>

OutputFilename(id, name) ==
    IntStr(id) \o <<"_">> \o PathStem(name)
        \o <<"_", "e", "x", "t", "r", "a", "c", "t", "i", "o", "n", ".", "j", "s", "o", "n">>

\* json.dump(extraction.model_dump(), f) (lines 399-404)
ArtifactData(x) == ToJsonb(model_dump("ContractExtraction", x))

\* open(output_path, 'w'): the file is created or replaced
Written(dir, name, data) ==
    {f \in dir : f.name # name} \cup {[name |-> name, data |-> data]}

Response(status, id, path, detail, body) ==
    [status |-> status, database_id |-> id, output_path |-> path,
     detail |-> detail, body |-> body]

\* line 547-548: the extension check of the handler fails
RejectUpload(p) ==
    /\ Scheduled(p)
    /\ pc[p] = "request" /\ request[p].route = "single"
    /\ ~IsPdfName(filename[p])
    /\ response' = [response EXCEPT ![p] =
           <<Response(400, <<>>, <<>>, <<PlainError("extension", "Only PDF files are supported")>>, <<>>)>>]
    /\ pc' = [pc EXCEPT ![p] = "done"]
    /\ UNCHANGED <<orch_vars, db_vars, extraction, error, prompt_files, completions,
                   set_order, fn_name, fn_arg, fn_result, request, output_dir,
                   temp_dirs, batch>>

\* lines 551-554, and 592-595 of the handler for several files: the upload is
\* read and extract_from_file is called
ReadUpload(p) ==
    /\ Scheduled(p)
    /\ pc[p] = "request" /\ request[p].route \in {"single", "multiple"}
    /\ IsPdfName(filename[p])
    /\ pc' = [pc EXCEPT ![p] = "extract"]
    /\ UNCHANGED <<orch_vars, db_vars, extraction, error, env_vars>>

\* line 557: save_to_database is called with the extraction returned
CallSaveToDatabase(p) ==
    /\ Scheduled(p)
    /\ pc[p] = "returned"
    /\ pc' = [pc EXCEPT ![p] = "save"]
    /\ UNCHANGED <<orch_vars, db_vars, extraction, error, env_vars>>

\* lines 559-571 and save_results (396-409): the artifact is written and the
\* success response returned; when the write fails, with the file not created
\* or left incomplete, the except clause of line 573 answers
SaveResultsUncommitted(p) ==
    /\ Scheduled(p)
    /\ pc[p] \in {"saved", "save_raised"}
    /\ LET output_path == OutputFilename(contract_db_id[p], filename[p]) IN
       \E outcome \in {"written", "not created", "incomplete"} :
          CASE outcome = "written" ->
                 /\ output_dir' = Written(output_dir, output_path,
                                          <<ArtifactData(extraction[p][1])>>)
                 /\ response' = [response EXCEPT ![p] =
                        <<Response(200, <<contract_db_id[p]>>, output_path, <<>>,
                                   <<ArtifactData(extraction[p][1])>>)>>]
                 /\ error' = error
            [] outcome = "not created" ->
                 /\ output_dir' = output_dir
                 /\ error' = [error EXCEPT ![p] =
                        <<PlainError("save_results", "Error saving results")>>]
                 /\ response' = [response EXCEPT ![p] =
                        <<Response(500, <<>>, <<>>, error'[p], <<>>)>>]
            [] outcome = "incomplete" ->
                 /\ output_dir' = Written(output_dir, output_path, <<>>)
                 /\ error' = [error EXCEPT ![p] =
                        <<PlainError("save_results", "Error saving results")>>]
                 /\ response' = [response EXCEPT ![p] =
                        <<Response(500, <<>>, <<>>, error'[p], <<>>)>>]
    /\ pc' = [pc EXCEPT ![p] = "done"]
    /\ UNCHANGED <<orch_vars, db_vars, extraction, prompt_files, completions,
                   set_order, fn_name, fn_arg, fn_result, request,
                   temp_dirs, batch>>

SaveResults(p) ==
    /\ Scheduled(p)
    /\ pc[p] = "saved"
    /\ LET output_path == OutputFilename(db_id[p][1], filename[p]) IN
       \E outcome \in {"written", "not created", "incomplete"} :
          CASE outcome = "written" ->
                 /\ output_dir' = Written(output_dir, output_path,
                                          <<ArtifactData(extraction[p][1])>>)
                 /\ response' = [response EXCEPT ![p] =
                        <<Response(200, db_id[p], output_path, <<>>,
                                   <<ArtifactData(extraction[p][1])>>)>>]
                 /\ error' = error
            [] outcome = "not created" ->
                 /\ output_dir' = output_dir
                 /\ error' = [error EXCEPT ![p] =
                        <<PlainError("save_results", "Error saving results")>>]
                 /\ response' = [response EXCEPT ![p] =
                        <<Response(500, <<>>, <<>>, error'[p], <<>>)>>]
            [] outcome = "incomplete" ->
                 /\ output_dir' = Written(output_dir, output_path, <<>>)
                 /\ error' = [error EXCEPT ![p] =
                        <<PlainError("save_results", "Error saving results")>>]
                 /\ response' = [response EXCEPT ![p] =
                        <<Response(500, <<>>, <<>>, error'[p], <<>>)>>]
    /\ pc' = [pc EXCEPT ![p] = "done"]
    /\ UNCHANGED <<orch_vars, db_vars, extraction, prompt_files, completions,
                   set_order, fn_name, fn_arg, fn_result, request,
                   temp_dirs, batch>>

\* lines 573-574: extract_from_file or save_to_database raised
RespondError(p) ==
    /\ Scheduled(p)
    /\ pc[p] \in {"raised", "save_raised"}
    /\ response' = [response EXCEPT ![p] = <<Response(500, <<>>, <<>>, error[p], <<>>)>>]
    /\ pc' = [pc EXCEPT ![p] = "done"]
    /\ UNCHANGED <<orch_vars, db_vars, extraction, error, prompt_files, completions,
                   set_order, fn_name, fn_arg, fn_result, request, output_dir,
                   temp_dirs, batch>>

\* GET /extractions/{extraction_id} (lines 663-681)
GetExtraction(p) ==
    /\ Scheduled(p)
    /\ pc[p] = "request" /\ request[p].route = "get"
    /\ response' = [response EXCEPT ![p] =
           IF get_extraction(request[p].id) = <<>>
           THEN <<Response(404, <<>>, <<>>, <<>>, <<>>)>>
           ELSE <<Response(200, <<>>, <<>>, <<>>, get_extraction(request[p].id))>>]
    /\ pc' = [pc EXCEPT ![p] = "done"]
    /\ UNCHANGED <<orch_vars, db_vars, extraction, error, prompt_files, completions,
                   set_order, fn_name, fn_arg, fn_result, request, output_dir,
                   temp_dirs, batch>>

\* the last n elements of seq, the latest first, after skipping the first k
Latest(seq, k, n) ==
    [i \in 1..(IF Len(seq) - k < n THEN (IF Len(seq) > k THEN Len(seq) - k ELSE 0) ELSE n)
        |-> seq[Len(seq) - k - i + 1]]

\* GET /extractions (lines 684-701): the rows in the order of created_at,
\* the latest first, after offset and limit
list_extractions(limit, offset) ==
    LET rows == Latest(store.summaries, offset, limit) IN
    [i \in 1..Len(rows) |->
        [ id |-> rows[i].id,
          document_title |-> rows[i].document_title,
          contract_type |-> rows[i].contract_type,
          confidence |-> rows[i].overall_confidence,
          file_name |-> rows[i].source_file_name ]]

ListExtractions(p) ==
    /\ Scheduled(p)
    /\ pc[p] = "request" /\ request[p].route = "list"
    /\ response' = [response EXCEPT ![p] =
           <<Response(200, <<>>, <<>>, <<>>,
                      list_extractions(request[p].limit, request[p].offset))>>]
    /\ pc' = [pc EXCEPT ![p] = "done"]
    /\ UNCHANGED <<orch_vars, db_vars, extraction, error, prompt_files, completions,
                   set_order, fn_name, fn_arg, fn_result, request, output_dir,
                   temp_dirs, batch>>

\* the requests that are tried: uploads of a name that is accepted and of a
\* name that is refused, a lookup and a listing
ApiRequests ==
    { [route |-> "single", id |-> 0, limit |-> 0, offset |-> 0,
       filename |-> <<"c", "o", "n", "t", "r", "a", "c", "t", ".", "p", "d", "f">>],
      [route |-> "single", id |-> 0, limit |-> 0, offset |-> 0,
       filename |-> <<"c", "o", "n", "t", "r", "a", "c", "t", ".", "d", "o", "c", "x">>],
      [route |-> "get", id |-> 1, limit |-> 0, offset |-> 0, filename |-> <<>>],
      [route |-> "list", id |-> 0, limit |-> 10, offset |-> 0, filename |-> <<>>] }

\* a service that raises at every call, one that answers every call with a
\* document the database takes, and one that answers with a document whose
\* confidence the database refuses
ApiServices ==
    { {r \in ServiceResponses : r.msg = "rate limit exceeded"},
      {r \in ServiceResponses : r.content # 0 /\ Contents[r.content].json = DocA},
      {r \in ServiceResponses : r.content # 0 /\ Contents[r.content].json = DocC} }

InitApi ==
    /\ pc = [p \in 1..NumRequests |-> "request"]
    /\ \E reqs \in [1..NumRequests -> ApiRequests] :
          /\ request = [p \in 1..NumRequests |->
                           [route |-> reqs[p].route, id |-> reqs[p].id,
                            limit |-> reqs[p].limit, offset |-> reqs[p].offset]]
          /\ filename = [p \in 1..NumRequests |-> reqs[p].filename]
    /\ file_content = [p \in 1..NumRequests |-> <<37, 80>>]
    /\ max_retries = [p \in 1..NumRequests |-> 0]
    /\ attempt = [p \in 1..NumRequests |-> 0]
    /\ file_id = [p \in 1..NumRequests |-> 0]
    /\ calls = [p \in 1..NumRequests |-> <<>>]
    /\ responses = [p \in 1..NumRequests |-> <<>>]
    /\ last_failure = [p \in 1..NumRequests |-> <<>>]
    /\ extraction = [p \in 1..NumRequests |-> <<>>]
    /\ error = [p \in 1..NumRequests |-> <<>>]
    /\ remote_files = {}
    /\ next_file_id = 1
    /\ prompt_files = PromptPaths
    /\ completions \in ApiServices
    /\ set_order = FirstAdded
    /\ fn_name = "none" /\ fn_arg = None /\ fn_result = <<>>
    /\ tx = [p \in 1..NumRequests |-> NoRows]
    /\ contract_db_id = [p \in 1..NumRequests |-> 0]
    /\ db_id = [p \in 1..NumRequests |-> <<>>]
    /\ session = [p \in 1..NumRequests |-> <<>>]
    /\ store = NoRows
    /\ next_id = 1
    /\ response = [p \in 1..NumRequests |-> <<>>]
    /\ output_dir = {}
    /\ temp_dirs = NoTempDirs
    /\ batch = NoBatch

\* The handler passes no max_retries and has checked the extension itself:
\* the loop of extract_from_file is never left at line 394 and the check of
\* line 298 never fails.
NextApi ==
    \/ \E p \in Procs : RejectUpload(p)
    \/ \E p \in Procs : ReadUpload(p)
    \/ \E p \in Procs : LoadPrompts(p)
    \/ \E p \in Procs : Upload(p)
    \/ \E p \in Procs : AttemptSucceeds(p)
    \/ \E p \in Procs : AttemptFails(p)
    \/ \E p \in Procs : LastAttemptFails(p)
    \/ \E p \in Procs : CallSaveToDatabase(p)
    \/ \E p \in Procs : InsertSummary(p)
    \/ \E p \in Procs : InsertParties(p)
    \/ \E p \in Procs : InsertFees(p)
    \/ \E p \in Procs : InsertRules(p)
    \/ \E p \in Procs : Commit(p)
    \/ \E p \in Procs : CommitFails(p)
    \/ \E p \in Procs : Rollback(p)
    \/ \E p \in Procs : SaveResults(p)
    \/ \E p \in Procs : RespondError(p)
    \/ \E p \in Procs : GetExtraction(p)
    \/ \E p \in Procs : ListExtractions(p)

SpecApi == InitApi /\ [][NextApi]_vars

\* the stages of a request from the call of save_to_database on
SaveStages ==
    {"save", "save_parties", "save_fees", "save_rules", "save_commit",
     "save_except", "save_raised", "saved"}

\* the last answer of the service to p is a document that extract_from_file
\* validated, and it is the value p holds
HoldsReturnedValue(p) ==
    /\ extraction[p] # <<>>
    /\ responses[p] # <<>>
    /\ LET r == responses[p][Len(responses[p])] IN
          /\ AttemptException(r) = <<>>
          /\ extraction[p][1] = Build(Model("ContractExtraction"), Contents[r.content].json)

\* the uploads that were answered with the success response
Succeeded ==
    {p \in Procs : /\ request[p].route = "single"
                   /\ response[p] # <<>> /\ response[p][1].status = 200}

\* the artifact f carries the id and the stem of a stored summary row
NamesStoredRow(f) ==
    \E i \in 1..Len(store.summaries) :
        f.name = OutputFilename(store.summaries[i].id,
                                store.summaries[i].source_file_name)

\* C22: the stages run in the order extraction, persistence, artifact:
\* save_to_database works on a value extract_from_file returned in the same
\* request, and every artifact file, the one of a success response included,
\* names the id of a summary row that is in the store
C22_PipelineOrder ==
    /\ \A p \in Procs :
          /\ (pc[p] \in SaveStages \/ session[p] # <<>>) => HoldsReturnedValue(p)
          /\ p \in Succeeded =>
                /\ db_id[p] # <<>>
                /\ SummariesOf(db_id[p][1]) # <<>>
    /\ \A f \in output_dir : NamesStoredRow(f)

\* two requests wrote their artifacts
C22_Witness ==
    /\ Cardinality(output_dir) = 2
    /\ Succeeded = Procs

\* C23: a success response stands for exactly one artifact file, named
\* <id>_<stem>_extraction.json after the id that was persisted and the stem
\* of the uploaded name, and two successes never share an artifact name
C23_OneArtifactPerSuccess ==
    /\ \A p \in Succeeded :
          /\ response[p][1].output_path = OutputFilename(db_id[p][1], filename[p])
          /\ response[p][1].output_path =
                IntStr(db_id[p][1]) \o <<"_", "c", "o", "n", "t", "r", "a", "c", "t">>
                    \o <<"_", "e", "x", "t", "r", "a", "c", "t", "i", "o", "n",
                         ".", "j", "s", "o", "n">>
          /\ Cardinality({f \in output_dir : f.name = response[p][1].output_path}) = 1
          /\ \A f \in output_dir :
                f.name = response[p][1].output_path =>
                    f.data = <<ArtifactData(extraction[p][1])>>
    /\ \A p, q \in Succeeded :
          p # q => response[p][1].output_path # response[q][1].output_path
    /\ Cardinality({f \in output_dir : f.data # <<>>}) = Cardinality(Succeeded)

\* two uploads of the same file name succeeded
C23_Witness ==
    \E p, q \in Succeeded : p # q /\ filename[p] = filename[q]

\* the tables of old are kept in new, row by row, at the same places
KeptIn(old, new) ==
    /\ Len(old) <= Len(new)
    /\ \A i \in 1..Len(old) : new[i] = old[i]

StoreOnlyGrows ==
    /\ KeptIn(store.summaries, store'.summaries)
    /\ KeptIn(store.parties, store'.parties)
    /\ KeptIn(store.fees, store'.fees)
    /\ KeptIn(store.rules, store'.rules)

\* the store changes in the commit of one request only, which adds one summary
\* row, with the children that reference it
OnlyCommitAddsRows ==
    store' # store =>
        \E p \in Procs :
            /\ pc[p] = "save_commit" /\ pc'[p] = "saved"
            /\ Len(store'.summaries) = Len(store.summaries) + 1
            /\ store'.summaries[Len(store'.summaries)].id = db_id'[p][1]
            /\ \A i \in Len(store.parties) + 1..Len(store'.parties) :
                  store'.parties[i].contract_extraction_id = db_id'[p][1]
            /\ \A i \in Len(store.fees) + 1..Len(store'.fees) :
                  store'.fees[i].contract_extraction_id = db_id'[p][1]
            /\ \A i \in Len(store.rules) + 1..Len(store'.rules) :
                  store'.rules[i].contract_extraction_id = db_id'[p][1]

\* C25: a summary row is created once for each save_to_database call that
\* returned an id, and no step of any request (extraction, persistence of
\* another document, artifact write, lookup, listing) changes or removes a
\* row of the four tables
C25_RowsCreatedOnceAndKept ==
    /\ [](/\ \A p \in Procs : db_id[p] # <<>> => Len(SummariesOf(db_id[p][1])) = 1
          /\ Len(store.summaries) = Cardinality({p \in Procs : db_id[p] # <<>>}))
    /\ [][StoreOnlyGrows /\ OnlyCommitAddsRows]_vars

\* after a first document was persisted, a second one was persisted too and
\* its artifact written
C25_Witness ==
    /\ Len(store.summaries) = 2
    /\ 2 \in Succeeded
    /\ Len(store.parties) = 4

\* C29: a request answered with an error has left no row in the store
C29_ErrorLeavesNoRows ==
    \A p \in Procs :
        (response[p] # <<>> /\ response[p][1].status >= 400) =>
            /\ SummariesOf(contract_db_id[p]) = <<>>
            /\ ChildrenOf(store.parties, contract_db_id[p]) = <<>>
            /\ ChildrenOf(store.fees, contract_db_id[p]) = <<>>
            /\ ChildrenOf(store.rules, contract_db_id[p]) = <<>>

(***************************************************************************)
(* POST /extract/multiple (lines 577-628).  The files of the request are   *)
(* the submissions 1..n, handled one after the other in the order of the   *)
(* list; batch holds the lists results and errors of the handler.          *)
(***************************************************************************)
MaxFiles == 2

UploadNames ==
    { <<"c", "o", "n", "t", "r", "a", "c", "t", ".", "p", "d", "f">>,
      <<"c", "o", "n", "t", "r", "a", "c", "t", ".", "d", "o", "c", "x">> }

\* lines 580-581: the list of files is empty
BatchRefuseEmpty ==
    /\ Procs = {}
    /\ batch.response = <<>>
    /\ batch' = [batch EXCEPT !.response = <<[status |-> 400, detail |-> "No files provided"]>>]
    /\ UNCHANGED <<pc, extraction, error, orch_vars, db_vars, prompt_files,
                   completions, set_order, fn_name, fn_arg, fn_result, request,
                   response, output_dir, temp_dirs>>

\* lines 587-589: the name is refused, the loop goes on with the next file
BatchRejectName(p) ==
    /\ Scheduled(p)
    /\ pc[p] = "request" /\ request[p].route = "multiple"
    /\ ~IsPdfName(filename[p])
    /\ batch' = [batch EXCEPT !.errors = Append(@,
           [filename |-> filename[p],
            error |-> PlainError("extension", "Only PDF files are supported")])]
    /\ pc' = [pc EXCEPT ![p] = "done"]
    /\ UNCHANGED <<extraction, error, orch_vars, db_vars, prompt_files,
                   completions, set_order, fn_name, fn_arg, fn_result, request,
                   response, output_dir, temp_dirs>>

\* the entry of results for a file that went through (lines 606-612)
SuccessEntry(p, output_path) ==
    [filename |-> filename[p], status |-> "success", database_id |-> db_id[p][1],
     output_path |-> output_path, extraction |-> ArtifactData(extraction[p][1])]

\* what lines 615-620 add for a file whose processing raised e
WithError(b, name, e) ==
    [b EXCEPT !.errors = Append(@, [filename |-> name, error |-> e]),
              !.results = Append(@, [filename |-> name, status |-> "error",
                                     error |-> e])]

\* lines 600-612 and save_results (396-409): the artifact is written and the
\* success entry added; when the write fails the except clause of line 614
\* records the error
BatchSaveResults(p) ==
    /\ Scheduled(p)
    /\ pc[p] = "saved" /\ request[p].route = "multiple"
    /\ \E output_path \in {OutputFilename(db_id[p][1], filename[p])} :
       \E outcome \in {"written", "not created", "incomplete"} :
          CASE outcome = "written" ->
                 /\ output_dir' = Written(output_dir, output_path,
                                          <<ArtifactData(extraction[p][1])>>)
                 /\ batch' = [batch EXCEPT !.results =
                                 Append(@, SuccessEntry(p, output_path))]
                 /\ error' = error
            [] outcome = "not created" ->
                 /\ output_dir' = output_dir
                 /\ error' = [error EXCEPT ![p] =
                        <<PlainError("save_results", "Error saving results")>>]
                 /\ batch' = WithError(batch, filename[p], error'[p][1])
            [] outcome = "incomplete" ->
                 /\ output_dir' = Written(output_dir, output_path, <<>>)
                 /\ error' = [error EXCEPT ![p] =
                        <<PlainError("save_results", "Error saving results")>>]
                 /\ batch' = WithError(batch, filename[p], error'[p][1])
    /\ pc' = [pc EXCEPT ![p] = "done"]
    /\ UNCHANGED <<orch_vars, db_vars, extraction, prompt_files, completions,
                   set_order, fn_name, fn_arg, fn_result, request, response,
                   temp_dirs>>

\* lines 614-620: extract_from_file or save_to_database raised
BatchRecordError(p) ==
    /\ Scheduled(p)
    /\ pc[p] \in {"raised", "save_raised"} /\ request[p].route = "multiple"
    /\ batch' = WithError(batch, filename[p], error[p][1])
    /\ pc' = [pc EXCEPT ![p] = "done"]
    /\ UNCHANGED <<extraction, error, orch_vars, db_vars, prompt_files,
                   completions, set_order, fn_name, fn_arg, fn_result, request,
                   response, output_dir, temp_dirs>>

\* the number of entries of results with this status
CountStatus(results, status) ==
    Cardinality({i \in 1..Len(results) : results[i].status = status})

\* a response whose failed is counted from results
BatchResponseCountingResults(n, results, errors) ==
    [status |-> 200, total_files |-> n,
     successful |-> CountStatus(results, "success"),
     failed |-> CountStatus(results, "error"),
     results |-> results, errors |-> errors]

\* lines 622-628
BatchResponse(n, results, errors) ==
    [status |-> 200, total_files |-> n,
     successful |-> CountStatus(results, "success"),
     failed |-> Len(errors),
     results |-> results, errors |-> errors]

\* line 622: the loop is over, the response is returned
BatchRespond ==
    /\ Procs # {}
    /\ \A p \in Procs : pc[p] = "done"
    /\ batch.response = <<>>
    /\ batch' = [batch EXCEPT !.response =
                    <<BatchResponse(Cardinality(Procs), batch.results, batch.errors)>>]
    /\ UNCHANGED <<pc, extraction, error, orch_vars, db_vars, prompt_files,
                   completions, set_order, fn_name, fn_arg, fn_result, request,
                   response, output_dir, temp_dirs>>

InitBatch ==
    \E n \in 0..MaxFiles :
        /\ pc = [p \in 1..n |-> "request"]
        /\ request = [p \in 1..n |->
                         [route |-> "multiple", id |-> 0, limit |-> 0, offset |-> 0]]
        /\ filename \in [1..n -> UploadNames]
        /\ file_content = [p \in 1..n |-> <<37, 80>>]
        /\ max_retries = [p \in 1..n |-> 0]
        /\ attempt = [p \in 1..n |-> 0]
        /\ file_id = [p \in 1..n |-> 0]
        /\ calls = [p \in 1..n |-> <<>>]
        /\ responses = [p \in 1..n |-> <<>>]
        /\ last_failure = [p \in 1..n |-> <<>>]
        /\ extraction = [p \in 1..n |-> <<>>]
        /\ error = [p \in 1..n |-> <<>>]
        /\ remote_files = {}
        /\ next_file_id = 1
        /\ prompt_files = PromptPaths
        /\ completions \in ApiServices
        /\ set_order = FirstAdded
        /\ fn_name = "none" /\ fn_arg = None /\ fn_result = <<>>
        /\ tx = [p \in 1..n |-> NoRows]
        /\ contract_db_id = [p \in 1..n |-> 0]
        /\ db_id = [p \in 1..n |-> <<>>]
        /\ session = [p \in 1..n |-> <<>>]
        /\ store = NoRows
        /\ next_id = 1
        /\ response = [p \in 1..n |-> <<>>]
        /\ output_dir = {}
        /\ temp_dirs = NoTempDirs
        /\ batch = NoBatch

NextBatch ==
    \/ BatchRefuseEmpty
    \/ \E p \in Procs : BatchRejectName(p)
    \/ \E p \in Procs : ReadUpload(p)
    \/ \E p \in Procs : LoadPrompts(p)
    \/ \E p \in Procs : Upload(p)
    \/ \E p \in Procs : AttemptSucceeds(p)
    \/ \E p \in Procs : AttemptFails(p)
    \/ \E p \in Procs : LastAttemptFails(p)
    \/ \E p \in Procs : CallSaveToDatabase(p)
    \/ \E p \in Procs : InsertSummary(p)
    \/ \E p \in Procs : InsertParties(p)
    \/ \E p \in Procs : InsertFees(p)
    \/ \E p \in Procs : InsertRules(p)
    \/ \E p \in Procs : Commit(p)
    \/ \E p \in Procs : CommitFails(p)
    \/ \E p \in Procs : Rollback(p)
    \/ \E p \in Procs : BatchSaveResults(p)
    \/ \E p \in Procs : BatchRecordError(p)
    \/ BatchRespond

SpecBatch == InitBatch /\ [][NextBatch]_vars

\* the file was handled and counts as successful
FileSucceeded(p) == pc[p] = "done" /\ db_id[p] # <<>> /\ error[p] = <<>>

\* the file was handled and counts as failed: its name was refused or its
\* processing raised
FileFailed(p) == pc[p] = "done" /\ (~IsPdfName(filename[p]) \/ error[p] # <<>>)

\* C35: extract_multiple_contracts handles every file of the request, whatever
\* happened to the files before it, and counts each file once, as successful or
\* as failed: in the response successful + failed = total_files, the number
\* of the files submitted; a refused name and an error of the pipeline both
\* count as failed
C35_EveryFileCountedOnce ==
    /\ \A p \in Procs : pc[p] = "done" => (FileSucceeded(p) # FileFailed(p))
    /\ CountStatus(batch.results, "success")
           = Cardinality({p \in Procs : FileSucceeded(p)})
    /\ Len(batch.errors) = Cardinality({p \in Procs : FileFailed(p)})
    /\ (batch.response # <<>> /\ Procs # {}) =>
          /\ \A p \in Procs : pc[p] = "done"
          /\ \A p \in Procs :
                IsPdfName(filename[p]) => extraction[p] # <<>> \/ error[p] # <<>>
          /\ batch.response[1].total_files = Cardinality(Procs)
          /\ batch.response[1].successful + batch.response[1].failed
                 = batch.response[1].total_files
          /\ batch.response[1].successful
                 = Cardinality({p \in Procs : FileSucceeded(p)})
          /\ batch.response[1].failed = Cardinality({p \in Procs : FileFailed(p)})

\* the first file failed in the pipeline, the one after it went through, and
\* the response counts one of each
C35_Witness ==
    /\ batch.response # <<>>
    /\ \E p, q \in Procs :
          /\ p < q
          /\ IsPdfName(filename[p]) /\ error[p] # <<>>
          /\ FileSucceeded(q)
    /\ batch.response[1].successful = 1
    /\ batch.response[1].failed = 1
(***************************************************************************)
(* extract_from_pdf of extraction/extractor.py (lines 57-185), the         *)
(* orchestrator of the command line.  Its retry loop (lines 133-185) is    *)
(* the text of lines 344-394 of extract_from_file and is modelled by the   *)
(* same actions; the steps before the loop are its own.                    *)
(***************************************************************************)
DotPDF == <<".", "P", "D", "F">>

\* Lines 66-71: the two prompt files; max_retries is used as it was passed.
LoadPromptsCli(p) ==
    /\ pc[p] = "cli_extract"
    /\ LET raised == IF load_prompt("system_prompt_path") # <<>>
                     THEN load_prompt("system_prompt_path")
                     ELSE load_prompt("user_prompt_path")
       IN IF raised = <<>>
          THEN /\ pc' = [pc EXCEPT ![p] = "cli_upload"]
               /\ error' = error
          ELSE /\ pc' = [pc EXCEPT ![p] = "raised"]
               /\ error' = [error EXCEPT ![p] = raised]
    /\ UNCHANGED <<orch_vars, extraction, db_vars, env_vars>>

\* Lines 80-81: the extension check fails.
RejectExtensionCli(p) ==
    /\ pc[p] = "cli_upload"
    /\ ~IsPdfName(filename[p])
    /\ pc' = [pc EXCEPT ![p] = "raised"]
    /\ error' = [error EXCEPT ![p] =
                    <<PlainError("extension", "File must have .pdf extension")>>]
    /\ UNCHANGED <<orch_vars, extraction, db_vars, env_vars>>

\* Lines 84-103: a path that ends with .PDF is copied to contract.pdf in a
\* temporary directory, any other path is opened as it is; the file is
\* uploaded with files.create; the finally clause removes the directory when
\* the copy is there.
UploadCli(p) ==
    /\ pc[p] = "cli_upload"
    /\ IsPdfName(filename[p])
    /\ \E outcome \in {"uploaded", "copy failed", "open failed", "upload failed"} :
          /\ outcome = "copy failed" => endswith(filename[p], DotPDF)
          /\ temp_dirs' = IF ~endswith(filename[p], DotPDF) THEN temp_dirs
                          ELSE IF outcome = "copy failed"
                               THEN MadeAndLeft(temp_dirs)
                               ELSE MadeAndRemoved(temp_dirs)
          /\ CASE outcome = "uploaded" ->
                    /\ file_id' = [file_id EXCEPT ![p] = next_file_id]
                    /\ next_file_id' = next_file_id + 1
                    /\ remote_files' = remote_files \cup {next_file_id}
                    /\ calls' = [calls EXCEPT ![p] = Append(@, Call("files.create", TRUE))]
                    /\ pc' = [pc EXCEPT ![p] = "loop"]
                    /\ error' = error
               [] outcome = "upload failed" ->
                    /\ calls' = [calls EXCEPT ![p] = Append(@, Call("files.create", FALSE))]
                    /\ pc' = [pc EXCEPT ![p] = "raised"]
                    /\ error' = [error EXCEPT ![p] =
                                    <<PlainError("upload", "files.create failed")>>]
                    /\ UNCHANGED <<file_id, next_file_id, remote_files>>
               [] outcome \in {"copy failed", "open failed"} ->
                    /\ pc' = [pc EXCEPT ![p] = "raised"]
                    /\ error' = [error EXCEPT ![p] =
                                    <<PlainError("read", "cannot read the document")>>]
                    /\ UNCHANGED <<file_id, next_file_id, remote_files, calls>>
    /\ UNCHANGED <<filename, max_retries, attempt, responses, last_failure,
                   extraction, db_vars, prompt_files, completions, set_order,
                   fn_name, fn_arg, fn_result, request, response, output_dir,
                   batch>>

\* names with the extension in lower case, in upper case, and without it
EquivNames ==
    { <<"c", "o", "n", "t", "r", "a", "c", "t", ".", "p", "d", "f">>,
      <<"c", "o", "n", "t", "r", "a", "c", "t", ".", "P", "D", "F">>,
      <<"c", "o", "n", "t", "r", "a", "c", "t", ".", "d", "o", "c", "x">> }

\* a service that raises or answers with a valid document, and one that
\* answers with text that is no JSON or with a valid document
EquivServices ==
    { {r \in ServiceResponses :
          \/ r.msg = "rate limit exceeded"
          \/ r.content # 0 /\ Contents[r.content].json = DocA},
      {r \in ServiceResponses :
          r.content # 0 /\ (\/ Contents[r.content].form = "malformed"
                            \/ Contents[r.content].json = DocA)} }

\* The two orchestrators are called with the same path and the same retry
\* limit and talk to the same service: submission 1 is the call of
\* extract_from_pdf made by main (lines 344-349), submission 2 a call of
\* extract_from_file.
InitEquiv ==
    /\ pc = <<"cli_extract", "extract">>
    /\ request = << [route |-> "cli", id |-> 0, limit |-> 0, offset |-> 0],
                    [route |-> "none", id |-> 0, limit |-> 0, offset |-> 0] >>
    /\ \E name \in EquivNames : filename = <<name, name>>
    /\ \E limit \in -1..MaxRetriesArg : max_retries = <<limit, limit>>
    /\ attempt = <<0, 0>>
    /\ file_id = <<0, 0>>
    /\ calls = << <<>>, <<>> >>
    /\ responses = << <<>>, <<>> >>
    /\ last_failure = << <<>>, <<>> >>
    /\ extraction = << <<>>, <<>> >>
    /\ error = << <<>>, <<>> >>
    /\ remote_files = {}
    /\ next_file_id = 1
    /\ prompt_files = PromptPaths
    /\ completions \in EquivServices
    /\ set_order = FirstAdded
    /\ fn_name = "none" /\ fn_arg = None /\ fn_result = <<>>
    /\ file_content = <<0, 0>>
    /\ tx = <<NoRows, NoRows>>
    /\ contract_db_id = <<0, 0>>
    /\ db_id = << <<>>, <<>> >>
    /\ session = << <<>>, <<>> >>
    /\ store = NoRows
    /\ next_id = 1
    /\ response = << <<>>, <<>> >>
    /\ output_dir = {}
    /\ temp_dirs = NoTempDirs
    /\ batch = NoBatch

NextEquiv ==
    \/ \E p \in Procs : LoadPromptsCli(p)
    \/ \E p \in Procs : RejectExtensionCli(p)
    \/ \E p \in Procs : UploadCli(p)
    \/ \E p \in Procs : LoadPrompts(p)
    \/ \E p \in Procs : RejectExtension(p)
    \/ \E p \in Procs : Upload(p)
    \/ \E p \in Procs : AttemptSucceeds(p)
    \/ \E p \in Procs : AttemptFails(p)
    \/ \E p \in Procs : LastAttemptFails(p)
    \/ \E p \in Procs : LoopExhausted(p)

SpecEquiv == InitEquiv /\ [][NextEquiv]_vars

\* the names of the external calls a submission issued, in order
CallNames(p) == [i \in 1..Len(calls[p]) |-> calls[p][i].call]

IsPrefix(s, t) == Len(s) <= Len(t) /\ SubSeq(t, 1, Len(s)) = s

\* both orchestrations are over, their uploads were issued with the same
\* outcome and the service gave them the same answers as far as each asked
SameOutcomes(p, q) ==
    /\ pc[p] \in {"returned", "raised"} /\ pc[q] \in {"returned", "raised"}
    /\ calls[p] # <<>> /\ calls[q] # <<>>
    /\ calls[p][1].ok = calls[q][1].ok
    /\ IsPrefix(responses[p], responses[q]) \/ IsPrefix(responses[q], responses[p])

\* the same external calls in the same order and the same outcome: the same
\* validated value or an error of the same kind
SameBehaviour(p, q) ==
    /\ CallNames(p) = CallNames(q)
    /\ extraction[p] = extraction[q]
    /\ (error[p] = <<>>) <=> (error[q] = <<>>)
    /\ (error[p] # <<>> /\ error[q] # <<>>) => error[p][1].kind = error[q][1].kind

\* C36: extract_from_pdf and extract_from_file, called with the same retry
\* limit and given the same outcomes of the upload, the completions and the
\* release, issue the same sequence of external calls and end alike
C36_OrchestratorsEquivalent ==
    \A p, q \in Procs :
        (request[p].route = "cli" /\ request[q].route = "none" /\ SameOutcomes(p, q))
            => SameBehaviour(p, q)
====
